---- MODULE Spec2Model ----
(***************************************************************************)
(* A model of the ReVoice recording core: the ChunkBuffer, the chunk store *)
(* and playback cache (ChunkReader, SessionManager, db.ts), the recording  *)
(* lifecycle of routes/+page.svelte and the result deduplication of        *)
(* NativeEngine.                                                           *)
(*                                                                         *)
(* The program is single-threaded and event driven.  Every action below is *)
(* one run-to-completion step: the code of a handler from its entry (or    *)
(* from the await it resumes at) up to its next await or its return.       *)
(***************************************************************************)
EXTENDS Integers, Sequences, FiniteSets, TLC

\* ------------------------------------------------------------------ bounds
\* Fragments the producer hands to one ChunkBuffer in SpecBuffer.
MaxFrags == 12
\* Fragments the producer hands to the ChunkBuffer in SpecStore.
MaxStoreFrags == 2
\* Operations of the store and of the platform that are allowed to fail in one
\* behaviour.
MaxFailures == 1
\* Flush writes that may be in flight at the same time.
MaxPending == 2
\* Calls of finalize() and clear() and expiries of the flush timer.
MaxCalls == 2

\* Rows added to the transcripts and to the audioData table by direct calls
\* of storeTranscript and storeAudioData in one behaviour.
MaxRows == 1
\* Calls of reconstruct and of the delete operations in one behaviour.
MaxOps == 3
\* Actions of the user on the page in one behaviour.
MaxClicks == 4
\* Non-empty fragments the capture driver delivers to the page.
MaxRecFrags == 2
\* Pause calls that may be in progress at the same time.
MaxInFlight == 1
\* Entries of the recognizer's result list.
MaxResults == 2
\* Result events the recognizer fires in one behaviour.
MaxEvents == 3
\* Periods of 100 ms that pass in one behaviour.
MaxTime == 4
\* Calls of pauseRecording in progress at once when the user repeats the action.
MaxDuplicates == 2
\* Fragments the producer hands to the buffer while its chunks are read.
MaxReadFrags == 3

\* ------------------------------------------------------- program constants
FLUSH_COUNT == 10

\* The session the ChunkBuffer under study was constructed for.
BufferSession == 1

VARIABLES
    \* ChunkBuffer fields (src/unnamed/part_000)
    chunks,             \* Blob[]: the buffered fragments, oldest first
    sequence,           \* the next sequence number to hand out
    flushTimer,         \* "null" | "armed" (timeout pending) | "fired"
                        \* (a timeout handle whose callback has already run)
    totalMemoryBytes,
    \* the producer and the store under the buffer
    pushed,             \* fragments handed to addChunk so far: ids 1..pushed
    budget,             \* fragments the producer will hand over in all
    pendingWrites,      \* bulkAdd calls in flight, oldest first
    recordingChunks,    \* table recordingChunks: key (sessionId, sequence)
    failures,           \* store operations that have failed so far
    calls,              \* finalize(), clear() and timer callbacks so far
    \* observation of the buffer's callers
    cleared,            \* clear() has been called
    finalized,          \* a finalize() has returned normally and nothing
                        \* was pushed since it was called
    lastError,          \* the caller whose flush was rejected in the last step
    batches,            \* while fragments are pushed one after another, each
                        \* push awaited, and flushed once at the end: the sizes
                        \* of the batches written
    \* the other tables of ReVoiceDB (src/src/lib/SessionManager.ts, 197-236)
    sessions,           \* table sessions: id -> record
    nextSessionId,      \* the auto-incremented key of sessions
    audioData,          \* table audioData in key order: <<[sessionId, blob]>>
    transcripts,        \* table transcripts in key order
    playbackCache,      \* table playbackCache: sessionId -> blob
    format,             \* the mimeType getSupportedAudioFormat() reports
    \* calls in progress
    rd,                 \* the ChunkReader.reconstruct call in progress
    dl,                 \* the delete call in progress
    ops,                \* reconstruct and delete calls made so far
    \* what the callers observed
    rdResult,           \* how the reconstruct call that ended in the last step ended
    dlResult,           \* how the delete call that ended in the last step ended
    lastBlob,           \* per session: the blob the last reconstruct returned,
                        \* NoBlob once a chunk write or a delete followed
    deletedWarm,        \* sessions deleted while holding chunks and a cache
                        \* entry, with no chunk written since the delete began
    \* the page, src/src/routes/+page.svelte lines 316-370
    recordingState,     \* "idle" | "recording" | "paused"
    sessionId,          \* 0 is null
    audioChunks,        \* Blob[]: the fragments the recorder handlers collected
    currentAudioBlob,
    mediaRecorder,      \* state of the current MediaRecorder, "null" if none
    driver,             \* the capture driver behind the recorders
    stream,             \* "null" | "live" | "ended" (its tracks were stopped)
    timerInterval,      \* "null" | "live" | "stale" (handle of a cleared interval)
    timers,             \* elapsed-time intervals that are running
    suppressTranscriptionErrors,
    startTime,
    now,                \* Date.now()
    engine,             \* the NativeEngine of the page
    \* the platform recognizer behind the engine
    results,            \* its result list: the finality of each entry
    events,             \* result events fired so far
    finalEmitted,       \* per result index of the running recognition: the
                        \* number of final results the engine has emitted
    watermarks,         \* the values lastResultIndex had in the last result
                        \* event of the running recognition: before the event
                        \* and after each entry processed
    lastEvent,          \* the resultIndex of that event and the results the
                        \* engine emitted for it, in emission order
    \* calls of the page's async functions in progress
    startCall,
    pauseCalls,
    clearCall,
    \* the user and what the user can observe
    clicks,             \* user actions so far
    delivered,          \* non-empty fragments the driver has delivered so far
    sessionFragments,   \* the fragments delivered since the session was created
    cycle,              \* progress through start, pause, click to resume, pause
    lastPause,          \* what the pause that ended last had persisted
    lastFailure,        \* the operation whose persistence step failed last, and
                        \* whether its caller was given the error
    lastClear,          \* how the clear that ended last began and what it did
    recordedTime,       \* the time for which recordingState has been 'recording'
    \* the view of the page, lines 355-357
    handlers,           \* result callbacks subscribed to the engine
    finalResults,       \* the result indices of the final results shown
    currentInterim,     \* the interim result shown, NoInterim if none
    recordingTime       \* the elapsed-time counter

bufVars == <<chunks, sequence, flushTimer, totalMemoryBytes, pushed, budget,
             pendingWrites, failures, calls, cleared, finalized, lastError, batches>>

tableVars == <<sessions, nextSessionId, audioData, transcripts, format>>

callVars == <<rd, dl, ops>>

\* Everything a ChunkBuffer step other than a completed write leaves alone.
storeVars == <<recordingChunks, playbackCache, tableVars, callVars, lastBlob, deletedWarm>>

recorderVars == <<mediaRecorder, driver, stream>>

timerVars == <<timerInterval, timers>>

callsInProgress == <<startCall, pauseCalls, clearCall>>

observed == <<delivered, sessionFragments, cycle, lastPause, lastFailure>>

viewVars == <<handlers, finalResults, currentInterim, recordingTime>>

recognizerVars == <<results, events, finalEmitted, watermarks, lastEvent>>

\* The state of the page but its engine and its view.
pageRest == <<recordingState, sessionId, audioChunks, currentAudioBlob, recorderVars,
              timerVars, suppressTranscriptionErrors, startTime, now,
              recordedTime, lastClear, callsInProgress, clicks, observed>>

\* The state of the page but its engine.
pageOther == <<pageRest, viewVars>>

\* The state of the page and of the recognizer under its engine.
pageVars == <<pageOther, engine, recognizerVars>>

vars == <<bufVars, storeVars, rdResult, dlResult, pageVars>>


\* ------------------------------------------------------------------ blobs
\* A fragment is identified by its arrival number; its size is fixed by it.
BlobSize(f) == IF f % 2 = 1 THEN 100 ELSE 60

\* new Blob(parts, {type}): the concatenation of the parts, tagged.
NewBlob(parts, type) == [data |-> parts, type |-> type]

\* No blob: null, undefined, a missing record.
NoBlob == [data |-> <<>>, type |-> "none"]

\* ------------------------------------------------------------ chunk store
ChunkKeys == {<<r.sessionId, r.sequence>> : r \in recordingChunks}

\* recordingChunks.where('sessionId').equals(sid)
ChunksOf(sid) == {r \in recordingChunks : r.sessionId = sid}

\* bulkAdd is one transaction: it adds every record or, when a key exists
\* already (ConstraintError) or the write fails, none.
KeyClash(records) ==
    \E i \in 1..Len(records) :
        <<records[i].sessionId, records[i].sequence>> \in ChunkKeys

\* .sortBy('sequence'): the records of S in ascending sequence order.
RECURSIVE SortBySequence(_)
SortBySequence(S) ==
    IF S = {} THEN <<>>
    ELSE LET least == CHOOSE r \in S : \A q \in S : r.sequence <= q.sequence
         IN <<least>> \o SortBySequence(S \ {least})

\* chunks.map((chunk) => chunk.blob), ChunkReader lines 59-60.
BlobsOf(records) == [i \in 1..Len(records) |-> records[i].blob]

\* A function without the key k (Table.delete(k)).
Without(f, k) == [x \in (DOMAIN f) \ {k} |-> f[x]]

\* where('sessionId').equals(sid).delete() on a table kept in key order.
DeleteOf(rows, sid) == SelectSeq(rows, LAMBDA r : r.sessionId # sid)

\* ------------------------------------------------- calls and their results
IdleRead == [pc |-> "idle", sid |-> 0, blob |-> NoBlob, storeReads |-> 0,
             afterDelete |-> FALSE, visited |-> <<>>]

NoResult == [op |-> "none", kind |-> "none", sid |-> 0, blob |-> NoBlob, storeReads |-> 0,
             prev |-> NoBlob, cached |-> FALSE, afterDelete |-> FALSE,
             value |-> 0, readFailed |-> FALSE, visited |-> <<>>]

IdleDelete == [op |-> "none", pc |-> "idle", sid |-> 0, warm |-> FALSE,
               left |-> {}, failed |-> FALSE]

NoDeleteResult == [op |-> "none", sid |-> 0, kind |-> "none", sessionLeft |-> FALSE,
                   chunksLeft |-> FALSE, cacheLeft |-> FALSE,
                   transcriptsLeft |-> FALSE, audioLeft |-> FALSE]

\* What the caller of reconstruct (r) and of a delete operation (d) observes
\* in this step; a result is consumed before the next step.
Observe(r, d) == rdResult' = r /\ dlResult' = d

\* No call returns in this step.
Quiet == Observe(NoResult, NoDeleteResult)

\* ------------------------------------------------------------ ChunkBuffer
\* The number of fragments of the scenario "push 12 fragments, then wait".
ScenarioFrags == 12

\* The scenario is left.
OffScenario == [on |-> FALSE, sizes |-> <<>>]

\* The scenario goes on when `still` holds.
Scenario(still) == IF batches.on /\ still THEN batches ELSE OffScenario

\* flush(), lines 93-100: the records of one batch.  The counter is read and
\* incremented once per buffered fragment before the write is issued.
FlushRecords(cs, seq0) ==
    [i \in 1..Len(cs) |->
        [sessionId |-> BufferSession, sequence |-> seq0 + (i - 1), blob |-> cs[i]]]

\* flush(), lines 82-103, up to the await of bulkAdd, for buffer contents cs
\* and timer state tm, called by `caller`.
StartFlush(cs, tm, caller) ==
    IF Len(cs) = 0
    THEN /\ flushTimer' = tm
         /\ UNCHANGED <<sequence, pendingWrites>>
         /\ finalized' = (caller = "finalize" \/ (finalized /\ caller # "addChunk"))
    ELSE /\ flushTimer' = "null"
         /\ sequence' = sequence + Len(cs)
         /\ pendingWrites' = Append(pendingWrites,
                [records |-> FlushRecords(cs, sequence), caller |-> caller,
                 pushedAt |-> pushed])
         /\ finalized' = (finalized /\ caller # "addChunk")

\* An addChunk that leaves every flush to the timer.
AddChunk_NoCountFlush ==
    /\ pushed < budget
    /\ Len(pendingWrites) < MaxPending
    /\ pushed' = pushed + 1
    /\ chunks' = Append(chunks, pushed + 1)
    /\ totalMemoryBytes' = totalMemoryBytes + BlobSize(pushed + 1)
    /\ flushTimer' = IF flushTimer = "null" THEN "armed" ELSE flushTimer
    /\ finalized' = FALSE
    /\ lastError' = "none"
    /\ batches' = Scenario(pendingWrites = <<>> /\ pushed < ScenarioFrags)
    /\ Quiet
    /\ UNCHANGED <<pageVars, sequence, pendingWrites, budget, failures, calls, cleared,
                   storeVars>>

\* addChunk(chunk), lines 53-72.
AddChunk ==
    /\ pushed < budget
    /\ Len(pendingWrites) < MaxPending
    /\ LET f  == pushed + 1
           cs == Append(chunks, f)
           tm == IF flushTimer = "null" THEN "armed" ELSE flushTimer
       IN /\ pushed' = f
          /\ chunks' = cs
          /\ totalMemoryBytes' = totalMemoryBytes + BlobSize(f)
          /\ IF Len(cs) >= FLUSH_COUNT
             THEN StartFlush(cs, "null", "addChunk")
             ELSE /\ flushTimer' = tm
                  /\ finalized' = FALSE
                  /\ UNCHANGED <<sequence, pendingWrites>>
    /\ lastError' = "none"
    /\ batches' = Scenario(pendingWrites = <<>> /\ pushed < ScenarioFrags)
    /\ Quiet
    /\ UNCHANGED <<pageVars, budget, failures, calls, cleared, storeVars>>

\* The timeout armed by addChunk (lines 59-61) expires and calls flush().
TimerFires ==
    /\ flushTimer = "armed"
    /\ Len(pendingWrites) < MaxPending
    /\ calls < MaxCalls
    /\ calls' = calls + 1
    /\ StartFlush(chunks, "fired", "timer")
    /\ lastError' = "none"
    /\ batches' = Scenario(pendingWrites = <<>> /\ pushed = ScenarioFrags)
    /\ Quiet
    /\ UNCHANGED <<pageVars, chunks, totalMemoryBytes, pushed, budget, failures, cleared, storeVars>>

\* finalize(), lines 170-172: the owner's call of flush().
Finalize ==
    /\ calls < MaxCalls
    /\ Len(pendingWrites) < MaxPending
    /\ calls' = calls + 1
    /\ StartFlush(chunks, flushTimer, "finalize")
    /\ lastError' = "none"
    /\ batches' = Scenario(pendingWrites = <<>> /\ pushed = ScenarioFrags)
    /\ Quiet
    /\ UNCHANGED <<pageVars, chunks, totalMemoryBytes, pushed, budget, failures, cleared, storeVars>>

\* A clear that leaves the pending flush timer armed.
Clear_KeepsTimer ==
    /\ calls < MaxCalls
    /\ calls' = calls + 1
    /\ flushTimer' = flushTimer
    /\ chunks' = <<>>
    /\ totalMemoryBytes' = 0
    /\ cleared' = TRUE
    /\ lastError' = "none"
    /\ batches' = OffScenario
    /\ Quiet
    /\ UNCHANGED <<pageVars, sequence, pushed, budget, pendingWrites, failures, finalized, storeVars>>

\* clear(), lines 153-160.
Clear ==
    /\ calls < MaxCalls
    /\ calls' = calls + 1
    /\ flushTimer' = "null"
    /\ chunks' = <<>>
    /\ totalMemoryBytes' = 0
    /\ cleared' = TRUE
    /\ lastError' = "none"
    /\ batches' = OffScenario
    /\ Quiet
    /\ UNCHANGED <<pageVars, sequence, pushed, budget, pendingWrites, failures, finalized, storeVars>>

\* new ChunkBuffer(sessionId, db), lines 23-42, for the session of a buffer
\* that is done (nothing buffered, no write in flight, no timer pending): the
\* producer goes on with the new buffer, whose fields have their initial
\* values.
NewChunkBuffer ==
    /\ chunks = <<>>
    /\ pendingWrites = <<>>
    /\ flushTimer # "armed"
    /\ sequence' = 0
    /\ flushTimer' = "null"
    /\ totalMemoryBytes' = 0
    /\ cleared' = FALSE
    /\ finalized' = FALSE
    /\ lastError' = "none"
    /\ batches' = OffScenario
    /\ Quiet
    /\ UNCHANGED <<pageVars, chunks, pushed, budget, pendingWrites, failures, calls,
                   storeVars>>

\* bulkAdd of the oldest flush in flight resolves; flush() resumes at lines
\* 105-107 and returns to its caller.
WriteSucceeds ==
    /\ pendingWrites # <<>>
    /\ LET w == Head(pendingWrites)
       IN /\ ~KeyClash(w.records)
          /\ recordingChunks' = recordingChunks \cup
                                {w.records[i] : i \in 1..Len(w.records)}
          /\ finalized' = ((w.caller = "finalize" /\ w.pushedAt = pushed) \/ finalized)
          /\ batches' = IF batches.on
                        THEN [batches EXCEPT !.sizes = Append(@, Len(w.records))]
                        ELSE batches
    /\ pendingWrites' = Tail(pendingWrites)
    /\ chunks' = <<>>
    /\ totalMemoryBytes' = 0
    /\ lastError' = "none"
    /\ lastBlob' = [lastBlob EXCEPT ![BufferSession] = NoBlob]
    /\ deletedWarm' = deletedWarm \ {BufferSession}
    /\ rd' = IF rd.sid = BufferSession THEN [rd EXCEPT !.afterDelete = FALSE] ELSE rd
    /\ dl' = IF dl.sid = BufferSession THEN [dl EXCEPT !.warm = FALSE] ELSE dl
    /\ Quiet
    /\ UNCHANGED <<pageVars, sequence, flushTimer, pushed, budget, failures, calls, cleared,
                   playbackCache, tableVars, ops>>

\* A flush that empties the buffer when its write was rejected.
WriteFails_ClearsBuffer ==
    /\ pendingWrites # <<>>
    /\ LET w == Head(pendingWrites)
       IN /\ \/ KeyClash(w.records)
             \/ failures < MaxFailures
          /\ failures' = IF KeyClash(w.records) THEN failures ELSE failures + 1
          /\ lastError' = w.caller
    /\ pendingWrites' = Tail(pendingWrites)
    /\ batches' = OffScenario
    /\ chunks' = <<>>
    /\ totalMemoryBytes' = 0
    /\ Quiet
    /\ UNCHANGED <<pageVars, sequence, flushTimer, pushed, budget,
                   calls, cleared, finalized, storeVars>>

\* bulkAdd of the oldest flush in flight rejects; flush() resumes in its catch
\* block, lines 108-113, and rethrows to its caller.
WriteFails ==
    /\ pendingWrites # <<>>
    /\ LET w == Head(pendingWrites)
       IN /\ \/ KeyClash(w.records)
             \/ failures < MaxFailures
          /\ failures' = IF KeyClash(w.records) THEN failures ELSE failures + 1
          /\ lastError' = w.caller
    /\ pendingWrites' = Tail(pendingWrites)
    /\ batches' = OffScenario
    /\ Quiet
    /\ UNCHANGED <<pageVars, chunks, totalMemoryBytes, sequence, flushTimer, pushed, budget,
                   calls, cleared, finalized, storeVars>>

\* ------------------------------------------------------------ ChunkReader
\* reconstruct returns `blob` (lines 46 and 74) or throws (line 77), with the
\* playbackCache being `cache` then.
ReconstructEnds(kind, blob, storeReads, cache) ==
    /\ rd' = IdleRead
    /\ Observe([op |-> "reconstruct", kind |-> kind, sid |-> rd.sid, blob |-> blob,
                storeReads |-> storeReads, prev |-> lastBlob[rd.sid],
                cached |-> (rd.sid \in DOMAIN cache /\ cache[rd.sid] = blob),
                afterDelete |-> (rd.afterDelete /\ rd.sid \in deletedWarm),
                value |-> 0, readFailed |-> (kind = "error"),
                visited |-> IF kind = "blob" THEN rd.visited ELSE <<>>],
               NoDeleteResult)
    /\ lastBlob' = IF kind = "blob" THEN [lastBlob EXCEPT ![rd.sid] = blob] ELSE lastBlob

\* reconstruct(sessionId, db) is called, lines 41-44: the cache lookup is issued.
ReconstructCall ==
    /\ rd.pc = "idle"
    /\ ops < MaxOps
    /\ \E sid \in DOMAIN lastBlob :
        rd' = [pc |-> "get", sid |-> sid, blob |-> NoBlob, storeReads |-> 0,
               afterDelete |-> (sid \in deletedWarm), visited |-> <<>>]
    /\ ops' = ops + 1
    /\ Quiet
    /\ UNCHANGED <<pageVars, bufVars, recordingChunks, playbackCache, tableVars, dl,
                   lastBlob, deletedWarm>>

\* playbackCache.get resolves, lines 44-53: a hit returns the cached blob, a
\* miss issues the read of the session's chunks.
ReconstructGet ==
    /\ rd.pc = "get"
    /\ IF rd.sid \in DOMAIN playbackCache
       THEN ReconstructEnds("blob", playbackCache[rd.sid], rd.storeReads, playbackCache)
       ELSE /\ rd' = [rd EXCEPT !.pc = "read"]
            /\ Quiet
            /\ UNCHANGED lastBlob
    /\ UNCHANGED <<pageVars, bufVars, recordingChunks, playbackCache, tableVars, dl, ops,
                   deletedWarm>>

\* The chunk query resolves, lines 50-72: no chunks throws, otherwise the blob
\* is built and the cache write is issued.
ReconstructRead ==
    /\ rd.pc = "read"
    /\ LET found == SortBySequence(ChunksOf(rd.sid))
       IN IF Len(found) = 0
          THEN ReconstructEnds("notfound", NoBlob, rd.storeReads + 1, playbackCache)
          ELSE /\ rd' = [rd EXCEPT !.pc = "put", !.storeReads = @ + 1,
                            !.visited = found,
                            !.blob = NewBlob(BlobsOf(found), "audio/webm;codecs=opus")]
               /\ Quiet
               /\ UNCHANGED lastBlob
    /\ UNCHANGED <<pageVars, bufVars, recordingChunks, playbackCache, tableVars, dl, ops,
                   deletedWarm>>

\* A reconstruct that returns the blob it built without caching it.
ReconstructPut_SkipsCache ==
    /\ rd.pc = "put"
    /\ ReconstructEnds("blob", rd.blob, rd.storeReads, playbackCache)
    /\ UNCHANGED <<pageVars, bufVars, recordingChunks, playbackCache, tableVars, dl, ops,
                   deletedWarm>>

\* playbackCache.put resolves, lines 68-74.
ReconstructPut ==
    /\ rd.pc = "put"
    /\ playbackCache' = [x \in (DOMAIN playbackCache) \cup {rd.sid} |->
                            IF x = rd.sid THEN rd.blob ELSE playbackCache[x]]
    /\ ReconstructEnds("blob", rd.blob, rd.storeReads, playbackCache')
    /\ UNCHANGED <<pageVars, bufVars, recordingChunks, tableVars, dl, ops, deletedWarm>>

\* Every buffer field but the count of failed store operations.
bufOther == <<chunks, sequence, flushTimer, totalMemoryBytes, pushed, budget,
              pendingWrites, calls, cleared, finalized, lastError, batches>>

\* A store operation of reconstruct rejects; the catch block, lines 75-78,
\* rethrows.
ReconstructFails ==
    /\ rd.pc \in {"get", "read", "put"}
    /\ failures < MaxFailures
    /\ failures' = failures + 1
    /\ ReconstructEnds("error", NoBlob, rd.storeReads, playbackCache)
    /\ UNCHANGED <<pageVars, bufOther, recordingChunks, playbackCache, tableVars, dl, ops,
                   deletedWarm>>

\* chunks.reduce((total, chunk) => total + chunk.blob.size, 0), line 158.
RECURSIVE TotalSize(_)
TotalSize(S) ==
    IF S = {} THEN 0
    ELSE LET r == CHOOSE q \in S : TRUE
         IN BlobSize(r.blob) + TotalSize(S \ {r})

\* A size query returns a number.
Returned(n) == [kind |-> "number", value |-> n]

\* ChunkReader.estimateSize(sessionId, db), lines 151-163: the sizes of the
\* session's chunks are summed; the catch block returns 0.
EstimateSizeOf(sid, readFails) ==
    IF readFails THEN Returned(0) ELSE Returned(TotalSize(ChunksOf(sid)))

\* SessionManager.getSessionSize(sessionId, db), lines 103-110: the result of
\* estimateSize; the catch block returns 0.
GetSessionSizeOf(sid, readFails) ==
    LET r == EstimateSizeOf(sid, readFails)
    IN IF r.kind = "error" THEN Returned(0) ELSE r

\* SessionManager.getChunkCount(sessionId, db), lines 139-147: count() of the
\* session's chunks; the catch block returns 0.
GetChunkCountOf(sid, readFails) ==
    IF readFails THEN Returned(0) ELSE Returned(Cardinality(ChunksOf(sid)))

\* A size query on the chunks of a session is made and settles; the read
\* under it succeeds or fails.
SizeQuery(op, Result(_, _)) ==
    /\ ops < MaxOps
    /\ ops' = ops + 1
    /\ \E sid \in DOMAIN lastBlob, readFails \in BOOLEAN :
        /\ readFails => failures < MaxFailures
        /\ failures' = IF readFails THEN failures + 1 ELSE failures
        /\ Observe([NoResult EXCEPT !.op = op, !.sid = sid,
                                     !.kind = Result(sid, readFails).kind,
                                     !.value = Result(sid, readFails).value,
                                     !.readFailed = readFails],
                   NoDeleteResult)
    /\ UNCHANGED <<pageVars, bufOther, recordingChunks, playbackCache, tableVars, rd, dl,
                   lastBlob, deletedWarm>>

\* ChunkReader.streamChunks(sessionId, db, callback), lines 97-121: the
\* session's chunks are read sorted by sequence and the callback is awaited
\* for each in turn; no chunk, and a failed read, throw.
StreamChunksOf(sid, readFails) ==
    LET found == SortBySequence(ChunksOf(sid))
    IN IF readFails \/ Len(found) = 0
       THEN [kind |-> "error", visited |-> <<>>]
       ELSE [kind |-> "done", visited |-> found]

StreamChunks ==
    /\ ops < MaxOps
    /\ ops' = ops + 1
    /\ \E sid \in DOMAIN lastBlob, readFails \in BOOLEAN :
        /\ readFails => failures < MaxFailures
        /\ failures' = IF readFails THEN failures + 1 ELSE failures
        /\ Observe([NoResult EXCEPT !.op = "streamChunks", !.sid = sid,
                                     !.kind = StreamChunksOf(sid, readFails).kind,
                                     !.visited = StreamChunksOf(sid, readFails).visited,
                                     !.readFailed = readFails],
                   NoDeleteResult)
    /\ UNCHANGED <<pageVars, bufOther, recordingChunks, playbackCache, tableVars, rd, dl,
                   lastBlob, deletedWarm>>

EstimateSize == SizeQuery("estimateSize", EstimateSizeOf)

GetSessionSize == SizeQuery("getSessionSize", GetSessionSizeOf)

GetChunkCount == SizeQuery("getChunkCount", GetChunkCountOf)

\* --------------------------------------------------- SessionManager, db.ts
\* What is left of session dl.sid in tables S (sessions), C (recordingChunks),
\* P (playbackCache), T (transcripts), A (audioData) when the delete call
\* settles as `kind`.
DeleteResult(kind, S, C, P, T, A) ==
    [op |-> dl.op, sid |-> dl.sid, kind |-> kind,
     sessionLeft |-> (dl.sid \in DOMAIN S),
     chunksLeft |-> (\E r \in C : r.sessionId = dl.sid),
     cacheLeft |-> (dl.sid \in DOMAIN P),
     transcriptsLeft |-> (\E i \in 1..Len(T) : T[i].sessionId = dl.sid),
     audioLeft |-> (\E i \in 1..Len(A) : A[i].sessionId = dl.sid)]

\* storeTranscript(sessionId, text, time, isFinal), db.ts lines 388-401.
AddTranscript(sid, text, isFinal) ==
    Append(transcripts, [sessionId |-> sid, text |-> text, isFinal |-> isFinal])

StoreTranscript ==
    /\ Len(transcripts) < MaxRows
    /\ \E sid \in DOMAIN lastBlob : transcripts' = AddTranscript(sid, "t", TRUE)
    /\ Quiet
    /\ UNCHANGED <<pageVars, bufVars, recordingChunks, playbackCache, sessions, nextSessionId,
                   audioData, format, callVars, lastBlob, deletedWarm>>

\* getSessionAudio(sessionId), db.ts lines 367-370: first() of the rows of the
\* session, which the index on sessionId yields in primary-key order.
GetSessionAudio(sid) ==
    LET rows == {i \in 1..Len(audioData) : audioData[i].sessionId = sid}
    IN IF rows = {} THEN NoBlob
       ELSE audioData[CHOOSE i \in rows : \A j \in rows : i <= j].blob

\* storeAudioData(sessionId, blob), db.ts lines 341-348.
AddAudioData(sid, blob) == Append(audioData, [sessionId |-> sid, blob |-> blob])

StoreAudioData ==
    /\ Len(audioData) < MaxRows
    /\ \E sid \in DOMAIN lastBlob : audioData' = AddAudioData(sid, NewBlob(<<1>>, format))
    /\ Quiet
    /\ UNCHANGED <<pageVars, bufVars, recordingChunks, playbackCache, sessions, nextSessionId,
                   transcripts, format, callVars, lastBlob, deletedWarm>>

\* A delete call `op` for session sid begins.
BeginDelete(op, sid) ==
    /\ dl.pc = "idle"
    /\ ops < MaxOps
    /\ ops' = ops + 1
    /\ dl' = [op |-> op, sid |-> sid,
              pc |-> IF op = "deleteSession" THEN "all" ELSE "chunks",
              warm |-> (ChunksOf(sid) # {} /\ sid \in DOMAIN playbackCache),
              left |-> IF op = "deleteSession"
                       THEN {"sessions", "audioData", "transcripts"} ELSE {},
              failed |-> FALSE]
    /\ Quiet
    /\ UNCHANGED <<pageVars, bufVars, recordingChunks, playbackCache, tableVars, rd,
                   lastBlob, deletedWarm>>

\* SessionManager.clearSessionChunks (lines 69-75) or
\* SessionManager.deleteSession (lines 159-162) is called: the chunk delete is
\* issued.
SessionManagerCall ==
    \E sid \in DOMAIN lastBlob,
       op \in {"clearSessionChunks", "SessionManager.deleteSession"} :
        BeginDelete(op, sid)

\* deleteSession of db.ts is called, lines 451-457: three deletes are issued.
DbDeleteSessionCall ==
    \E sid \in DOMAIN lastBlob : BeginDelete("deleteSession", sid)

\* clearSessionChunks, lines 72-80: the chunk delete resolves and clearCache
\* is called.
DeleteChunks ==
    /\ dl.pc = "chunks"
    /\ recordingChunks' = recordingChunks \ ChunksOf(dl.sid)
    /\ dl' = [dl EXCEPT !.pc = "cache"]
    /\ lastBlob' = [lastBlob EXCEPT ![dl.sid] = NoBlob]
    /\ Quiet
    /\ UNCHANGED <<pageVars, bufVars, playbackCache, tableVars, rd, ops, deletedWarm>>

\* The delete call dl throws with the tables as they are.
DeleteThrows ==
    /\ failures < MaxFailures
    /\ failures' = failures + 1
    /\ dl' = IdleDelete
    /\ Observe(NoResult, DeleteResult("error", sessions, recordingChunks,
                                      playbackCache, transcripts, audioData))
    /\ UNCHANGED <<pageVars, bufOther, recordingChunks, playbackCache, tableVars, rd, ops,
                   lastBlob, deletedWarm>>

\* clearSessionChunks, lines 81-84: the chunk delete rejects; the error is
\* rethrown, by deleteSession (lines 171-174) too.
DeleteChunksFails ==
    /\ dl.pc = "chunks"
    /\ DeleteThrows

\* What follows clearCache in the delete call dl, for playbackCache P:
\* clearSessionChunks returns; deleteSession issues sessions.delete (line 165).
AfterClearCache(P) ==
    IF dl.op = "clearSessionChunks"
    THEN /\ dl' = IdleDelete
         /\ Observe(NoResult, DeleteResult("ok", sessions, recordingChunks, P,
                                           transcripts, audioData))
    ELSE /\ dl' = [dl EXCEPT !.pc = "session"]
         /\ Quiet

\* ChunkReader.clearCache, lines 132-134: playbackCache.delete resolves.
ClearCache ==
    /\ dl.pc = "cache"
    /\ playbackCache' = Without(playbackCache, dl.sid)
    /\ lastBlob' = [lastBlob EXCEPT ![dl.sid] = NoBlob]
    /\ AfterClearCache(playbackCache')
    /\ UNCHANGED <<pageVars, bufVars, recordingChunks, tableVars, rd, ops, deletedWarm>>

\* ChunkReader.clearCache, lines 135-138: playbackCache.delete rejects; the
\* error is logged and not rethrown.
ClearCacheFails ==
    /\ dl.pc = "cache"
    /\ failures < MaxFailures
    /\ failures' = failures + 1
    /\ AfterClearCache(playbackCache)
    /\ UNCHANGED <<pageVars, bufOther, recordingChunks, playbackCache, tableVars, rd, ops,
                   lastBlob, deletedWarm>>

\* SessionManager.deleteSession, lines 165-170: sessions.delete resolves.
DeleteSessionRecord ==
    /\ dl.pc = "session"
    /\ sessions' = Without(sessions, dl.sid)
    /\ dl' = IdleDelete
    /\ Observe(NoResult, DeleteResult("ok", sessions', recordingChunks, playbackCache,
                                      transcripts, audioData))
    /\ deletedWarm' = IF dl.warm THEN deletedWarm \cup {dl.sid} ELSE deletedWarm
    /\ UNCHANGED <<pageVars, bufVars, recordingChunks, playbackCache, nextSessionId, audioData,
                   transcripts, format, rd, ops, lastBlob>>

\* SessionManager.deleteSession, lines 171-174: sessions.delete rejects.
DeleteSessionRecordFails ==
    /\ dl.pc = "session"
    /\ DeleteThrows

\* deleteSession of db.ts, lines 452-456: one of the three deletes Promise.all
\* waits for resolves; with the last one Promise.all settles.
DbDeleteStep ==
    /\ dl.pc = "all"
    /\ \E t \in dl.left :
        /\ sessions' = IF t = "sessions" THEN Without(sessions, dl.sid) ELSE sessions
        /\ audioData' = IF t = "audioData" THEN DeleteOf(audioData, dl.sid) ELSE audioData
        /\ transcripts' = IF t = "transcripts"
                          THEN DeleteOf(transcripts, dl.sid) ELSE transcripts
        /\ IF dl.left = {t}
           THEN /\ dl' = IdleDelete
                /\ IF dl.failed THEN Quiet
                   ELSE Observe(NoResult,
                                DeleteResult("ok", sessions', recordingChunks,
                                             playbackCache, transcripts', audioData'))
           ELSE /\ dl' = [dl EXCEPT !.left = @ \ {t}]
                /\ Quiet
    /\ UNCHANGED <<pageVars, bufVars, recordingChunks, playbackCache, nextSessionId, format, rd,
                   ops, lastBlob, deletedWarm>>

\* One of the three deletes rejects: Promise.all rejects at once, the other
\* deletes still run.
DbDeleteStepFails ==
    /\ dl.pc = "all"
    /\ failures < MaxFailures
    /\ failures' = failures + 1
    /\ \E t \in dl.left :
        dl' = IF dl.left = {t} THEN IdleDelete
              ELSE [dl EXCEPT !.left = @ \ {t}, !.failed = TRUE]
    /\ IF dl.failed THEN Quiet
       ELSE Observe(NoResult, DeleteResult("error", sessions, recordingChunks,
                                           playbackCache, transcripts, audioData))
    /\ UNCHANGED <<pageVars, bufOther, recordingChunks, playbackCache, tableVars, rd, ops,
                   lastBlob, deletedWarm>>

\* ------------------------------------------------------------ NativeEngine
\* The engine as the page drives it, src/src/lib/engines/base.ts.  `stream` is
\* "current" when the engine holds the page's stream, "stale" when it holds a
\* stream the page has replaced; `recognizing` is the platform recognizer being
\* started (start was called and no end event has fired since);
\* `stopRequested` is stop() having been called on the started recognizer, no
\* end event having fired since.
NoEngine == [state |-> "null", isStopping |-> FALSE, isReconnecting |-> FALSE,
             recognizing |-> FALSE, stream |-> "null", lastResultIndex |-> 0,
             stopRequested |-> FALSE]

\* new NativeEngine(), base.ts lines 238-253.
NewEngine == [NoEngine EXCEPT !.state = "idle"]

\* start(stream), lines 450-494: throws when the engine is listening, and when
\* recognition.start() throws because the recognizer is started already (the
\* retry after abort() at lines 486-488 throws again, no end event having fired).
EngineStart(e) ==
    IF e.state = "listening" THEN [ok |-> FALSE, engine |-> e]
    ELSE IF e.recognizing THEN [ok |-> FALSE, engine |-> [e EXCEPT !.stream = "current"]]
    ELSE [ok |-> TRUE,
          engine |-> [e EXCEPT !.stream = "current", !.recognizing = TRUE,
                               !.state = "listening"]]

\* stop(), lines 504-536, for the page's stream being st: the tracks of the
\* stream the engine holds are stopped.
EngineStop(e, st) ==
    IF e.state \in {"null", "idle"} THEN [engine |-> e, stream |-> st]
    ELSE [engine |-> [e EXCEPT !.isStopping = TRUE, !.stream = "null",
                               !.stopRequested = e.recognizing],
          stream |-> IF e.stream = "current" THEN "ended" ELSE st]

\* ------------------------------------------------------------------- page
\* The library variables a step of the page or of the engine leaves alone.
libRest == <<bufOther, recordingChunks, playbackCache, format,
             callVars, lastBlob, deletedWarm, rdResult, dlResult>>

libCore == <<libRest, transcripts>>

\* With the recognizer, which no step of the page touches.
libVars == <<libCore, recognizerVars>>

\* currentInterim = null.
NoInterim == [resultIndex |-> -1, isFinal |-> FALSE]

\* No clear has ended.
NoClear == [from |-> "none", session |-> FALSE, stored |-> FALSE, updated |-> FALSE,
            failed |-> FALSE, state |-> "none"]

\* No persistence step has failed.
NoFailure == [op |-> "none", surfaced |-> FALSE]

NoPause == [stored |-> FALSE, updated |-> FALSE, blob |-> NoBlob, complete |-> FALSE,
            duration |-> 0, counter |-> 0]

\* The user does something: a click or a call of one of the page's functions.
UserActs == clicks < MaxClicks /\ clicks' = clicks + 1

\* The scenario is left.
OffCycle == IF cycle = "none" THEN "none" ELSE "off"

\* Where the scenario "start, pause, click to resume, pause" or the scenario
\* "start, pause whose store fails, pause again" stands once a pause has set
\* 'paused', having stored the audio or not.
PausedCycle(stored) ==
    IF cycle = "started" /\ stored THEN "paused1"
    ELSE IF cycle = "resumed" /\ stored THEN "paused2"
    ELSE IF cycle = "retrying" THEN (IF stored THEN "retried" ELSE "retryAborted")
    ELSE OffCycle

\* q without the elements at the indices in W.
RemoveAt(q, W) ==
    LET F[i \in 0..Len(q)] ==
            IF i = 0 THEN <<>>
            ELSE IF i \in W THEN F[i - 1] ELSE Append(F[i - 1], q[i])
    IN F[Len(q)]

\* sessions.update(sid, {duration}), db.ts lines 323-325.
UpdateSessionDuration(sid, duration) ==
    IF sid \in DOMAIN sessions
    THEN [sessions EXCEPT ![sid].duration = duration]
    ELSE sessions

\* startRecording(), lines 579-643: the engine is started, a result callback
\* is subscribed and the elapsed-time interval is set; an engine that throws
\* sends the function to its catch block.  rs is recordingState before, e the
\* engine.
StartEngineAndTimer(rs, e) ==
    LET r == IF e.state = "null" THEN [ok |-> TRUE, engine |-> e] ELSE EngineStart(e)
    IN /\ engine' = r.engine
       /\ startCall' = "idle"
       /\ recordingState' = IF r.ok THEN rs ELSE "idle"
       /\ timerInterval' = IF r.ok THEN "live" ELSE timerInterval
       /\ timers' = IF r.ok THEN timers + 1 ELSE timers
       /\ handlers' = IF r.ok /\ e.state # "null" THEN handlers + 1 ELSE handlers
       /\ cycle' = IF r.ok THEN cycle
                   ELSE OffCycle

\* startRecording() is called, lines 518-523: getUserMedia is awaited.
StartRecording(c) ==
    /\ recordingState # "recording"
    /\ startCall = "idle"
    /\ UserActs
    /\ startCall' = "getUserMedia"
    /\ cycle' = c
    /\ UNCHANGED <<recordingState, sessionId, audioChunks, currentAudioBlob, recorderVars,
                   timerVars, suppressTranscriptionErrors, startTime, now, viewVars, recordedTime, lastClear, engine,
                   pauseCalls, clearCall, delivered, sessionFragments, lastPause, lastFailure>>
    /\ UNCHANGED <<libVars, sessions, nextSessionId, audioData, failures>>

\* getUserMedia resolves, lines 523-577: a new recorder on the new stream is
\* started and the collected fragments are dropped; createSession is awaited
\* when there is no session yet.
GetUserMediaResolves ==
    /\ startCall = "getUserMedia"
    /\ stream' = "live"
    /\ mediaRecorder' = "recording"
    /\ driver' = [driver EXCEPT !.gathered = TRUE,
                                !.orphan = @ \/ mediaRecorder = "recording"]
    /\ audioChunks' = <<>>
    /\ startTime' = now
    /\ LET e == [engine EXCEPT !.stream = IF @ = "current" THEN "stale" ELSE @]
       IN IF sessionId = 0
          THEN /\ startCall' = "createSession"
               /\ recordingState' = "recording"
               /\ engine' = e
               /\ sessionFragments' = <<>>
               /\ cycle' = IF cycle = "none" THEN "started" ELSE "off"
               /\ UNCHANGED <<timerVars, handlers, currentInterim>>
          ELSE /\ StartEngineAndTimer("recording", e)
               /\ currentInterim' = NoInterim
               /\ UNCHANGED sessionFragments
    /\ recordingTime' = 0
    /\ UNCHANGED <<sessionId, currentAudioBlob, suppressTranscriptionErrors, now,
                   finalResults, recordedTime, lastClear,
                   pauseCalls, clearCall, clicks, delivered, lastPause, lastFailure>>
    /\ UNCHANGED <<libVars, sessions, nextSessionId, audioData, failures>>

\* createSession resolves, lines 566-639 with db.ts lines 258-272.
CreateSessionResolves ==
    /\ startCall = "createSession"
    /\ sessionId' = nextSessionId
    /\ nextSessionId' = nextSessionId + 1
    /\ sessions' = [x \in (DOMAIN sessions) \cup {nextSessionId} |->
                       IF x = nextSessionId THEN [duration |-> 0, mimeType |-> format]
                       ELSE sessions[x]]
    /\ StartEngineAndTimer(recordingState, engine)
    /\ finalResults' = <<>>
    /\ UNCHANGED <<audioChunks, currentAudioBlob, recorderVars,
                   suppressTranscriptionErrors, startTime, now, currentInterim,
                   recordingTime, recordedTime, lastClear, pauseCalls, clearCall,
                   clicks, delivered, sessionFragments, lastPause, lastFailure>>
    /\ UNCHANGED <<libVars, audioData, failures>>

\* A start whose catch block sets the elapsed-time interval.
StartFails_StartsTimer ==
    /\ startCall \in {"getUserMedia", "createSession"}
    /\ failures < MaxFailures
    /\ failures' = failures + 1
    /\ startCall' = "idle"
    /\ recordingState' = "idle"
    /\ cycle' = OffCycle
    /\ timerInterval' = "live"
    /\ timers' = timers + 1
    /\ UNCHANGED <<sessionId, audioChunks, currentAudioBlob, recorderVars,
                   suppressTranscriptionErrors, startTime, now, viewVars, recordedTime, lastClear, engine, pauseCalls,
                   clearCall, clicks, delivered, sessionFragments, lastPause, lastFailure>>
    /\ UNCHANGED <<libVars, sessions, nextSessionId, audioData>>

\* getUserMedia or createSession rejects: the catch block, lines 640-643.
StartFails ==
    /\ startCall \in {"getUserMedia", "createSession"}
    /\ failures < MaxFailures
    /\ failures' = failures + 1
    /\ startCall' = "idle"
    /\ recordingState' = "idle"
    /\ cycle' = OffCycle
    /\ UNCHANGED <<sessionId, audioChunks, currentAudioBlob, recorderVars, timerVars,
                   suppressTranscriptionErrors, startTime, now, viewVars, recordedTime, lastClear, engine, pauseCalls,
                   clearCall, clicks, delivered, sessionFragments, lastPause, lastFailure>>
    /\ UNCHANGED <<libVars, sessions, nextSessionId, audioData>>

\* pauseRecording(), lines 725-772, resumes after flushRecorderAndWait in the
\* calls at the indices W, the collected fragments being cs and those of the
\* session sf: the audio is built and storeAudioData awaited, or, with no
\* session or no fragment, 'paused' is set at once.
AfterFlush(W, cs, sf) ==
    IF W = {}
    THEN UNCHANGED <<pauseCalls, recordingState, lastPause, cycle>>
    ELSE IF sessionId # 0 /\ Len(cs) > 0
    THEN /\ pauseCalls' = [i \in DOMAIN pauseCalls |->
                              IF i \in W
                              THEN [pc |-> "store", blob |-> NewBlob(cs, format),
                                    complete |-> (cs = sf), duration |-> 0,
                                    counter |-> pauseCalls[i].counter]
                              ELSE pauseCalls[i]]
         /\ UNCHANGED <<recordingState, lastPause, cycle>>
    ELSE /\ pauseCalls' = RemoveAt(pauseCalls, W)
         /\ recordingState' = "paused"
         /\ lastPause' = NoPause
         /\ cycle' = PausedCycle(FALSE)

\* pauseRecording() is called, lines 700-723, with fewer than `limit` calls of
\* it in progress: up to the await of flushRecorderAndWait.  pause() on an
\* inactive recorder throws.
PauseWithin(limit) ==
    /\ recordingState = "recording"
    /\ mediaRecorder # "null"
    /\ Len(pauseCalls) < limit
    /\ UserActs
    /\ suppressTranscriptionErrors' = TRUE
    /\ timerInterval' = "null"
    /\ timers' = IF timerInterval = "live" THEN timers - 1 ELSE timers
    /\ LET s == EngineStop(engine, stream)
       IN engine' = s.engine /\ stream' = s.stream
    /\ IF mediaRecorder = "inactive"
       THEN /\ cycle' = IF cycle = "failed" THEN "retryAborted" ELSE OffCycle
            /\ UNCHANGED <<mediaRecorder, driver, pauseCalls>>
       ELSE /\ mediaRecorder' = "paused"
            /\ driver' = [driver EXCEPT !.requested = TRUE]
            /\ pauseCalls' = Append(pauseCalls, [pc |-> "flush", blob |-> NoBlob,
                                                 complete |-> FALSE, duration |-> 0,
                                                 counter |-> recordingTime])
            /\ cycle' = IF cycle = "failed" THEN "retrying" ELSE cycle
    /\ UNCHANGED <<recordingState, sessionId, audioChunks, currentAudioBlob, startTime,
                   now, viewVars, recordedTime, lastClear, startCall, clearCall, delivered, sessionFragments, lastPause, lastFailure>>
    /\ UNCHANGED <<libVars, sessions, nextSessionId, audioData, failures>>

PauseRecording == PauseWithin(MaxInFlight)

\* pauseRecording() is called again while an earlier call of it is still in
\* progress, as by a double click on the microphone.
DuplicatePause == pauseCalls # <<>> /\ PauseWithin(MaxDuplicates)

\* The pause calls whose dataavailable listener is still registered.
Listening == {i \in DOMAIN pauseCalls : pauseCalls[i].pc = "flush"}

\* A dataavailable event with a non-empty fragment: ondataavailable, lines
\* 539-553, collects it and the listeners of flushRecorderAndWait, lines
\* 506-512, resolve.
Deliver ==
    LET f  == delivered + 1
        cs == Append(audioChunks, f)
        sf == Append(sessionFragments, f)
    IN /\ delivered < MaxRecFrags
       /\ delivered' = f
       /\ audioChunks' = cs
       /\ sessionFragments' = sf
       /\ AfterFlush(Listening, cs, sf)

\* The timeslice of a recording recorder (start(1000), line 556) elapses.
TimesliceData ==
    /\ mediaRecorder = "recording" \/ driver.orphan
    /\ Deliver
    /\ UNCHANGED <<sessionId, currentAudioBlob, recorderVars, timerVars,
                   suppressTranscriptionErrors, startTime, now, viewVars, recordedTime, lastClear, engine, startCall,
                   clearCall, clicks, lastFailure>>
    /\ UNCHANGED <<libVars, sessions, nextSessionId, audioData, failures>>

\* The dataavailable event queued by requestData() or stop() carries data.
RequestedData ==
    /\ driver.requested
    /\ driver.gathered
    /\ driver' = [driver EXCEPT !.requested = FALSE,
                                !.gathered = (mediaRecorder = "recording")]
    /\ Deliver
    /\ UNCHANGED <<sessionId, currentAudioBlob, mediaRecorder, stream, timerVars,
                   suppressTranscriptionErrors, startTime, now, viewVars, recordedTime, lastClear, engine, startCall,
                   clearCall, clicks, lastFailure>>
    /\ UNCHANGED <<libVars, sessions, nextSessionId, audioData, failures>>

\* The dataavailable event queued by requestData() or stop() carries an empty
\* blob: ondataavailable ignores it and the listeners of flushRecorderAndWait,
\* registered with once: true, are gone without having resolved.
RequestedEmpty ==
    /\ driver.requested
    /\ driver' = [driver EXCEPT !.requested = FALSE]
    /\ pauseCalls' = [i \in DOMAIN pauseCalls |->
                         IF i \in Listening THEN [pauseCalls[i] EXCEPT !.pc = "timeout"]
                         ELSE pauseCalls[i]]
    /\ UNCHANGED <<recordingState, sessionId, audioChunks, currentAudioBlob,
                   mediaRecorder, stream, timerVars, suppressTranscriptionErrors,
                   startTime, now, viewVars, recordedTime, lastClear, engine, startCall, clearCall, clicks, observed>>
    /\ UNCHANGED <<libVars, sessions, nextSessionId, audioData, failures>>

\* A timeout that fires only while the listener is still registered.
FlushTimeout_NeedsListener ==
    /\ \E i \in DOMAIN pauseCalls :
        /\ pauseCalls[i].pc = "flush"
        /\ AfterFlush({i}, audioChunks, sessionFragments)
    /\ UNCHANGED <<sessionId, audioChunks, currentAudioBlob, recorderVars, timerVars,
                   suppressTranscriptionErrors, startTime, now, viewVars, recordedTime, lastClear, engine, startCall,
                   clearCall, clicks, delivered, sessionFragments, lastFailure>>
    /\ UNCHANGED <<libVars, sessions, nextSessionId, audioData, failures>>

\* The 1000 ms timeout of flushRecorderAndWait, lines 501-504, fires.
FlushTimeout ==
    /\ \E i \in DOMAIN pauseCalls :
        /\ pauseCalls[i].pc \in {"flush", "timeout"}
        /\ AfterFlush({i}, audioChunks, sessionFragments)
    /\ UNCHANGED <<sessionId, audioChunks, currentAudioBlob, recorderVars, timerVars,
                   suppressTranscriptionErrors, startTime, now, viewVars, recordedTime, lastClear, engine, startCall,
                   clearCall, clicks, delivered, sessionFragments, lastFailure>>
    /\ UNCHANGED <<libVars, sessions, nextSessionId, audioData, failures>>

\* storeAudioData resolves, lines 742-753 with db.ts lines 341-348:
\* updateSessionDuration is awaited.
PauseStoreResolves ==
    /\ \E i \in DOMAIN pauseCalls :
        /\ pauseCalls[i].pc = "store"
        /\ audioData' = AddAudioData(sessionId, pauseCalls[i].blob)
        /\ currentAudioBlob' = pauseCalls[i].blob
        /\ pauseCalls' = [pauseCalls EXCEPT ![i].pc = "duration",
                                            ![i].duration = now - startTime]
    /\ UNCHANGED <<recordingState, sessionId, audioChunks, recorderVars, timerVars,
                   suppressTranscriptionErrors, startTime, now, viewVars, recordedTime, lastClear, engine, startCall,
                   clearCall, clicks, observed>>
    /\ UNCHANGED <<libVars, sessions, nextSessionId, failures>>

\* updateSessionDuration resolves, lines 753-759: blobToBase64 is awaited.
PauseDurationResolves ==
    /\ \E i \in DOMAIN pauseCalls :
        /\ pauseCalls[i].pc = "duration"
        /\ sessions' = UpdateSessionDuration(sessionId, pauseCalls[i].duration)
        /\ pauseCalls' = [pauseCalls EXCEPT ![i].pc = "backup"]
    /\ UNCHANGED <<recordingState, sessionId, audioChunks, currentAudioBlob,
                   recorderVars, timerVars, suppressTranscriptionErrors, startTime, now, viewVars, recordedTime, lastClear,
                   engine, startCall, clearCall, clicks, observed>>
    /\ UNCHANGED <<libVars, nextSessionId, audioData, failures>>

\* The localStorage backup settles, lines 758-772: its failure is swallowed and
\* 'paused' is set.
PauseBackupSettles ==
    /\ \E i \in DOMAIN pauseCalls :
        /\ pauseCalls[i].pc = "backup"
        /\ lastPause' = [stored |-> TRUE, updated |-> TRUE,
                         blob |-> pauseCalls[i].blob,
                         complete |-> pauseCalls[i].complete,
                         duration |-> pauseCalls[i].duration,
                         counter |-> pauseCalls[i].counter]
        /\ pauseCalls' = RemoveAt(pauseCalls, {i})
    /\ recordingState' = "paused"
    /\ cycle' = PausedCycle(TRUE)
    /\ UNCHANGED <<sessionId, audioChunks, currentAudioBlob, recorderVars, timerVars,
                   suppressTranscriptionErrors, startTime, now, viewVars, recordedTime, lastClear, engine, startCall,
                   clearCall, clicks, delivered, sessionFragments, lastFailure>>
    /\ UNCHANGED <<libVars, sessions, nextSessionId, audioData, failures>>

\* storeAudioData or updateSessionDuration rejects: the catch block of
\* pauseRecording, lines 773-775, logs the error.
PauseStoreFails ==
    /\ failures < MaxFailures
    /\ failures' = failures + 1
    /\ \E i \in DOMAIN pauseCalls :
        /\ pauseCalls[i].pc \in {"store", "duration"}
        /\ pauseCalls' = RemoveAt(pauseCalls, {i})
    /\ cycle' = IF cycle = "started" /\ Len(pauseCalls) = 1 THEN "failed" ELSE OffCycle
    /\ lastFailure' = [op |-> "pause", surfaced |-> FALSE]
    /\ UNCHANGED <<recordingState, sessionId, audioChunks, currentAudioBlob,
                   recorderVars, timerVars, suppressTranscriptionErrors, startTime, now, viewVars, recordedTime, lastClear,
                   engine, startCall, clearCall, clicks, delivered, sessionFragments,
                   lastPause>>
    /\ UNCHANGED <<libVars, sessions, nextSessionId, audioData>>

\* clearRecording() is called, lines 646-686: the recorder is stopped, the
\* engine and the stream's tracks are stopped and the interval is cleared.
\* From 'recording' with a session, requestData() on the recorder just stopped
\* throws into the catch block, lines 695-697; from 'paused' with a session,
\* updateSessionDuration is awaited; with no session 'idle' is set at once.
ClearRecording ==
    /\ recordingState # "idle"
    /\ clearCall.pc = "idle"
    /\ UserActs
    /\ engine' = EngineStop(engine, stream).engine
    /\ stream' = IF stream = "null" THEN "null" ELSE "ended"
    /\ mediaRecorder' = IF mediaRecorder \in {"recording", "paused"}
                        THEN "inactive" ELSE mediaRecorder
    /\ driver' = IF mediaRecorder \in {"recording", "paused"}
                 THEN [driver EXCEPT !.requested = TRUE] ELSE driver
    /\ timers' = IF timerInterval = "live" THEN timers - 1 ELSE timers
    /\ timerInterval' = IF timerInterval = "live" THEN "stale" ELSE timerInterval
    /\ cycle' = OffCycle
    /\ IF sessionId # 0 /\ recordingState = "recording"
       THEN /\ lastClear' = [NoClear EXCEPT !.from = "recording", !.session = TRUE,
                                            !.state = "recording"]
            /\ UNCHANGED <<recordingState, clearCall, finalResults, currentInterim,
                           recordingTime>>
       ELSE IF sessionId # 0
       THEN /\ clearCall' = [pc |-> "duration", duration |-> now - startTime]
            /\ UNCHANGED <<recordingState, lastClear, finalResults, currentInterim,
                           recordingTime>>
       ELSE /\ recordingState' = "idle"
            /\ finalResults' = <<>>
            /\ currentInterim' = NoInterim
            /\ recordingTime' = 0
            /\ lastClear' = [NoClear EXCEPT !.from = recordingState, !.state = "idle"]
            /\ UNCHANGED clearCall
    /\ UNCHANGED <<sessionId, audioChunks, currentAudioBlob,
                   suppressTranscriptionErrors, startTime, now, handlers, recordedTime,
                   startCall, pauseCalls, delivered, sessionFragments, lastPause,
                   lastFailure>>
    /\ UNCHANGED <<libVars, sessions, nextSessionId, audioData, failures>>

\* updateSessionDuration resolves in clearRecording, lines 681-694.
ClearDurationResolves ==
    /\ clearCall.pc = "duration"
    /\ sessions' = UpdateSessionDuration(sessionId, clearCall.duration)
    /\ clearCall' = [pc |-> "idle", duration |-> 0]
    /\ recordingState' = "idle"
    /\ finalResults' = <<>>
    /\ currentInterim' = NoInterim
    /\ recordingTime' = 0
    /\ lastClear' = [NoClear EXCEPT !.from = "paused", !.session = TRUE,
                                    !.updated = TRUE, !.state = "idle"]
    /\ UNCHANGED <<sessionId, audioChunks, currentAudioBlob, recorderVars, timerVars,
                   suppressTranscriptionErrors, startTime, now, handlers, recordedTime,
                   engine, startCall, pauseCalls, clicks, observed>>
    /\ UNCHANGED <<libVars, nextSessionId, audioData, failures>>

\* updateSessionDuration rejects in clearRecording: the catch block, lines
\* 695-697, logs the error.
ClearDurationFails ==
    /\ clearCall.pc = "duration"
    /\ failures < MaxFailures
    /\ failures' = failures + 1
    /\ clearCall' = [pc |-> "idle", duration |-> 0]
    /\ lastFailure' = [op |-> "clear", surfaced |-> FALSE]
    /\ lastClear' = [NoClear EXCEPT !.from = "paused", !.session = TRUE,
                                    !.failed = TRUE, !.state = recordingState]
    /\ UNCHANGED <<recordingState, sessionId, audioChunks, currentAudioBlob,
                   recorderVars, timerVars, suppressTranscriptionErrors, startTime, now,
                   viewVars, recordedTime,
                   engine, startCall, pauseCalls, clicks, delivered, sessionFragments,
                   cycle, lastPause>>
    /\ UNCHANGED <<libVars, sessions, nextSessionId, audioData>>

\* resumeRecording(), lines 778-799.  resume() on an inactive recorder throws,
\* and so does an engine that cannot start; the catch block logs the error.
ResumeRecording ==
    /\ recordingState = "paused"
    /\ mediaRecorder # "null"
    /\ stream # "null"
    /\ UserActs
    /\ IF mediaRecorder = "inactive"
       THEN /\ cycle' = OffCycle
            /\ UNCHANGED <<recordingState, mediaRecorder, driver, engine, timerVars,
                           suppressTranscriptionErrors>>
       ELSE LET r == IF engine.state = "null" THEN [ok |-> TRUE, engine |-> engine]
                     ELSE EngineStart(engine)
            IN /\ mediaRecorder' = "recording"
               /\ driver' = [driver EXCEPT !.gathered = TRUE]
               /\ suppressTranscriptionErrors' = FALSE
               /\ engine' = r.engine
               /\ timerInterval' = IF r.ok THEN "live" ELSE timerInterval
               /\ timers' = IF r.ok THEN timers + 1 ELSE timers
               /\ recordingState' = IF r.ok THEN "recording" ELSE recordingState
               /\ cycle' = IF r.ok /\ cycle = "paused1" THEN "resumedDirect" ELSE OffCycle
    /\ UNCHANGED <<sessionId, audioChunks, currentAudioBlob, stream, startTime, now, viewVars, recordedTime, lastClear,
                   callsInProgress, delivered, sessionFragments, lastPause, lastFailure>>
    /\ UNCHANGED <<libVars, sessions, nextSessionId, audioData, failures>>

\* handleMicClick(), lines 808-819.  isRecording and isPaused (lines 320-321)
\* exclude each other, so the branch that resumes is never taken.
HandleMicClick ==
    IF ~(recordingState = "recording")
    THEN StartRecording(IF recordingState = "paused" /\ cycle = "paused1"
                        THEN "resumed" ELSE OffCycle)
    ELSE IF recordingState = "paused"
    THEN ResumeRecording
    ELSE PauseRecording

\* ------------------------------------------------------------ environment
\* All tracks of the recorder's stream have ended: the platform stops the
\* recorder and queues its last dataavailable event.
TracksEnded ==
    /\ stream = "ended"
    /\ mediaRecorder \in {"recording", "paused"}
    /\ mediaRecorder' = "inactive"
    /\ driver' = [driver EXCEPT !.requested = TRUE]
    /\ UNCHANGED <<recordingState, sessionId, audioChunks, currentAudioBlob, stream,
                   timerVars, suppressTranscriptionErrors, startTime, now, viewVars, recordedTime, lastClear, engine,
                   callsInProgress, clicks, observed>>
    /\ UNCHANGED <<libVars, sessions, nextSessionId, audioData, failures>>

\* 100 ms pass: Date.now() advances by one period of the elapsed-time
\* interval and the callback of every running interval, lines 636-639, runs.
Tick ==
    /\ now < MaxTime
    /\ now' = now + 1
    /\ recordingTime' = IF timers > 0 THEN now' - startTime ELSE recordingTime
    /\ recordedTime' = IF recordingState = "recording"
                        THEN recordedTime + 1 ELSE recordedTime
    /\ UNCHANGED <<recordingState, sessionId, audioChunks, currentAudioBlob,
                   recorderVars, timerVars, suppressTranscriptionErrors, startTime,
                   lastClear, callsInProgress, clicks, observed, handlers, finalResults,
                   currentInterim, engine, recognizerVars>>
    /\ UNCHANGED <<libCore, sessions, nextSessionId, audioData, failures>>

\* No result event yet.
NoEvent == [resultIndex |-> 0, emitted |-> <<>>]

\* No result emitted yet.
NoneEmitted == [i \in 0..(MaxResults - 1) |-> 0]

\* recognition.onend, base.ts lines 401-427: the recognizer has ended, after
\* stop() or by itself, and its result list with it; a listening engine starts
\* it again.
RecognitionEnds ==
    /\ engine.recognizing
    /\ results' = <<>>
    /\ finalEmitted' = NoneEmitted
    /\ watermarks' = <<>>
    /\ lastEvent' = NoEvent
    /\ engine' = IF engine.isStopping
                 THEN [engine EXCEPT !.recognizing = FALSE, !.isStopping = FALSE,
                                     !.stopRequested = FALSE,
                                     !.state = "idle"]
                 ELSE IF engine.state = "listening"
                 THEN [engine EXCEPT !.isReconnecting = TRUE, !.state = "connecting",
                                     !.stopRequested = FALSE]
                 ELSE [engine EXCEPT !.recognizing = FALSE, !.stopRequested = FALSE]
    /\ UNCHANGED <<recordingState, sessionId, audioChunks, currentAudioBlob,
                   recorderVars, timerVars, suppressTranscriptionErrors, startTime, now, viewVars, recordedTime, lastClear,
                   callsInProgress, clicks, observed>>
    /\ UNCHANGED <<libCore, events, sessions, nextSessionId, audioData, failures>>

\* An engine that emits an entry only when it is at or above the watermark.
RECURSIVE OnResult_SkipsInterim(_, _, _, _)
OnResult_SkipsInterim(i, list, w, out) ==
    IF i >= Len(list) THEN [lastResultIndex |-> w, emitted |-> out]
    ELSE LET isFinal == list[i + 1]
         IN OnResult_SkipsInterim(i + 1, list,
                                  IF isFinal THEN i + 1 ELSE w,
                                  IF i >= w
                                  THEN Append(out, [resultIndex |-> i, isFinal |-> isFinal])
                                  ELSE out)

\* The entries i, i+1, ... of the result list `list` (index 0 first) are
\* processed with the watermark being w, base.ts lines 360-389: an entry is
\* emitted when it is at or above the watermark or not final, and a final entry
\* sets the watermark to its index + 1.  `out` collects the emitted results.
RECURSIVE OnResult(_, _, _, _)
OnResult(i, list, w, out) ==
    IF i >= Len(list) THEN [lastResultIndex |-> w, emitted |-> out]
    ELSE LET isFinal == list[i + 1]
         IN OnResult(i + 1, list,
                     IF isFinal THEN i + 1 ELSE w,
                     IF i >= w \/ ~isFinal
                     THEN Append(out, [resultIndex |-> i, isFinal |-> isFinal])
                     ELSE out)

\* The values of lastResultIndex while the entries i, i+1, ... of `list` are
\* processed, lines 360-389: w before the first entry, then the value after
\* each entry (line 387 assigns index + 1 when the entry is final).
RECURSIVE Watermarks(_, _, _)
Watermarks(i, list, w) ==
    IF i >= Len(list) THEN <<w>>
    ELSE <<w>> \o Watermarks(i + 1, list, IF list[i + 1] THEN i + 1 ELSE w)

\* A handler that stores every result with its own finality.
ResultHandler_StoresInterim(v, r) ==
    IF recordingState = "paused" THEN v
    ELSE [finalResults |-> IF r.isFinal THEN Append(v.finalResults, r.resultIndex)
                           ELSE v.finalResults,
          currentInterim |-> IF r.isFinal THEN NoInterim ELSE r,
          transcripts |-> IF sessionId # 0
                          THEN Append(v.transcripts,
                                      [sessionId |-> sessionId, text |-> r.resultIndex,
                                       isFinal |-> r.isFinal])
                          ELSE v.transcripts]

\* The result callback of the page, +page.svelte lines 583-624, called with
\* result r, the view and the transcripts table being v: nothing while paused;
\* a final result is appended to finalResults, clears the interim and is stored
\* for the session (db.ts lines 388-401); an interim one replaces currentInterim.
ResultHandler(v, r) ==
    IF recordingState = "paused" THEN v
    ELSE IF r.isFinal
    THEN [finalResults |-> Append(v.finalResults, r.resultIndex),
          currentInterim |-> NoInterim,
          transcripts |-> IF sessionId # 0
                          THEN Append(v.transcripts,
                                      [sessionId |-> sessionId, text |-> r.resultIndex,
                                       isFinal |-> TRUE])
                          ELSE v.transcripts]
    ELSE [v EXCEPT !.currentInterim = r]

\* emitResult, base.ts lines 149-153, for each of the results emitted[k..]:
\* every one of the n subscribed callbacks is called with it.
RECURSIVE EmitResults(_, _, _, _)
EmitResults(emitted, k, n, v) ==
    IF k > Len(emitted) THEN v
    ELSE LET Each[j \in 0..n] ==
                 IF j = 0 THEN v ELSE ResultHandler(Each[j - 1], emitted[k])
         IN EmitResults(emitted, k + 1, n, Each[n])

\* The result lists the recognizer can hold after `list`: it may have one
\* entry more, and an entry that was final stays final.
NextLists(list) ==
    {l \in UNION {[1..n -> BOOLEAN] : n \in Len(list)..(Len(list) + 1)} :
        /\ Len(l) <= MaxResults
        /\ \A i \in 1..Len(list) : list[i] => l[i]}

\* recognition.onresult, base.ts lines 319-390: the recognizer fires a result
\* event whose resultIndex r is at or below every entry that changed.
ResultEvent ==
    /\ engine.recognizing
    /\ events < MaxEvents
    /\ events' = events + 1
    /\ \E l \in NextLists(results), r \in 0..MaxResults :
        /\ r < Len(l)
        /\ \A i \in 1..Len(l) : (i > Len(results) \/ l[i] # results[i]) => r <= i - 1
        /\ results' = l
        /\ watermarks' = Watermarks(r, l, engine.lastResultIndex)
        /\ LET o == OnResult(r, l, engine.lastResultIndex, <<>>)
           IN /\ lastEvent' = [resultIndex |-> r, emitted |-> o.emitted]
              /\ engine' = [engine EXCEPT
                               !.lastResultIndex = o.lastResultIndex,
                               !.isReconnecting = FALSE,
                               !.state = IF engine.isReconnecting THEN "listening" ELSE @]
              /\ finalEmitted' =
                    [i \in DOMAIN finalEmitted |->
                        finalEmitted[i] +
                        Cardinality({k \in 1..Len(o.emitted) :
                            o.emitted[k].resultIndex = i /\ o.emitted[k].isFinal})]
              /\ LET v == EmitResults(o.emitted, 1, handlers,
                                      [finalResults |-> finalResults,
                                       currentInterim |-> currentInterim,
                                       transcripts |-> transcripts])
                 IN /\ finalResults' = v.finalResults
                    /\ currentInterim' = v.currentInterim
                    /\ transcripts' = v.transcripts
    /\ UNCHANGED <<pageRest, handlers, recordingTime, libRest, sessions, nextSessionId,
                   audioData, failures>>

\* start(stream) is called with a live stream, base.ts lines 450-494.
EngineStartCall ==
    /\ engine' = EngineStart(engine).engine
    /\ stream' = "live"
    /\ UNCHANGED <<recordingState, sessionId, audioChunks, currentAudioBlob,
                   mediaRecorder, driver, timerVars, suppressTranscriptionErrors,
                   startTime, now, viewVars, recordedTime, lastClear, callsInProgress, clicks, observed>>
    /\ UNCHANGED <<libVars, sessions, nextSessionId, audioData, failures>>

\* stop() is called, base.ts lines 504-536.
EngineStopCall ==
    /\ engine' = EngineStop(engine, stream).engine
    /\ stream' = EngineStop(engine, stream).stream
    /\ UNCHANGED <<recordingState, sessionId, audioChunks, currentAudioBlob,
                   mediaRecorder, driver, timerVars, suppressTranscriptionErrors,
                   startTime, now, viewVars, recordedTime, lastClear, callsInProgress, clicks, observed>>
    /\ UNCHANGED <<libVars, sessions, nextSessionId, audioData, failures>>

\* The page after onMount, lines 316-370 and 481-487.
InitPage ==
    /\ recordingState = "idle"
    /\ sessionId = 0
    /\ audioChunks = <<>>
    /\ currentAudioBlob = NoBlob
    /\ mediaRecorder = "null"
    /\ driver = [gathered |-> FALSE, requested |-> FALSE, orphan |-> FALSE]
    /\ stream = "null"
    /\ timerInterval = "null"
    /\ timers = 0
    /\ suppressTranscriptionErrors = FALSE
    /\ startTime = 0
    /\ now = 0
    /\ engine = NewEngine
    /\ results = <<>>
    /\ events = 0
    /\ finalEmitted = NoneEmitted
    /\ watermarks = <<>>
    /\ lastEvent = NoEvent
    /\ startCall = "idle"
    /\ pauseCalls = <<>>
    /\ clearCall = [pc |-> "idle", duration |-> 0]
    /\ clicks = 0
    /\ delivered = 0
    /\ sessionFragments = <<>>
    /\ cycle = "none"
    /\ lastPause = NoPause
    /\ lastFailure = NoFailure
    /\ lastClear = NoClear
    /\ recordedTime = 0
    /\ handlers = 0
    /\ finalResults = <<>>
    /\ currentInterim = NoInterim
    /\ recordingTime = 0

\* ------------------------------------------------------------- SpecBuffer
InitBufferFields ==
    /\ chunks = <<>>
    /\ sequence = 0
    /\ flushTimer = "null"
    /\ totalMemoryBytes = 0
    /\ pushed = 0
    /\ pendingWrites = <<>>
    /\ failures = 0
    /\ calls = 0
    /\ cleared = FALSE
    /\ finalized = FALSE
    /\ lastError = "none"
    /\ batches = [on |-> TRUE, sizes |-> <<>>]

\* No call in progress and nothing observed.
InitCalls ==
    /\ rd = IdleRead
    /\ dl = IdleDelete
    /\ ops = 0
    /\ rdResult = NoResult
    /\ dlResult = NoDeleteResult
    /\ lastBlob = [sid \in {BufferSession} |-> NoBlob]
    /\ deletedWarm = {}

\* The database when the recording of session BufferSession begins.
InitTables ==
    /\ sessions = [x \in {BufferSession} |-> [duration |-> 0, mimeType |-> format]]
    /\ nextSessionId = BufferSession + 1
    /\ audioData = <<>>
    /\ transcripts = <<>>
    /\ recordingChunks = {}
    /\ playbackCache = <<>>

InitBuffer ==
    /\ format = "audio/webm;codecs=opus"
    /\ InitBufferFields
    /\ InitCalls
    /\ InitTables
    /\ InitPage
    /\ budget = MaxFrags

NextBuffer ==
    \/ AddChunk
    \/ TimerFires
    \/ Finalize
    \/ Clear
    \/ WriteSucceeds
    \/ WriteFails

SpecBuffer == InitBuffer /\ [][NextBuffer]_vars

\* -------------------------------------------------------------- SpecStore
\* The ChunkBuffer of a session, flushed by its timer, ChunkReader.reconstruct
\* and the SessionManager's delete operations on one database.
InitStore ==
    /\ format = "audio/webm;codecs=opus"
    /\ InitBufferFields
    /\ InitCalls
    /\ InitTables
    /\ InitPage
    /\ budget = MaxStoreFrags

NextStore ==
    \/ AddChunk
    \/ TimerFires
    \/ WriteSucceeds
    \/ WriteFails
    \/ ReconstructCall
    \/ ReconstructGet
    \/ ReconstructRead
    \/ ReconstructPut
    \/ ReconstructFails
    \/ SessionManagerCall
    \/ DeleteChunks
    \/ DeleteChunksFails
    \/ ClearCache
    \/ ClearCacheFails
    \/ DeleteSessionRecord
    \/ DeleteSessionRecordFails

SpecStore == InitStore /\ [][NextStore]_vars

\* ------------------------------------------------------------- SpecFormat
\* getSupportedAudioFormat(), audio.ts lines 41-73: the formats it can
\* report, by what MediaRecorder.isTypeSupported answers in the browser.
SupportedFormats == {"audio/webm;codecs=opus", "audio/webm", "audio/mp4"}

\* A session recorded in any format the browser can report, its chunks
\* written by a buffer and read back by reconstruct.
InitFormat ==
    /\ format \in SupportedFormats
    /\ InitBufferFields
    /\ InitCalls
    /\ InitTables
    /\ InitPage
    /\ budget = MaxStoreFrags

SpecFormat == InitFormat /\ [][NextStore]_vars

\* --------------------------------------------------------------- SpecRead
\* The ChunkBuffer of a session, flushed by its timer, and the readers of its
\* chunks.
InitRead ==
    /\ format = "audio/webm;codecs=opus"
    /\ InitBufferFields
    /\ InitCalls
    /\ InitTables
    /\ InitPage
    /\ budget = MaxReadFrags

NextRead ==
    \/ AddChunk
    \/ TimerFires
    \/ WriteSucceeds
    \/ WriteFails
    \/ EstimateSize
    \/ GetSessionSize
    \/ GetChunkCount
    \/ StreamChunks
    \/ ReconstructCall
    \/ ReconstructGet
    \/ ReconstructRead
    \/ ReconstructPut
    \/ ReconstructFails

SpecRead == InitRead /\ [][NextRead]_vars

\* ------------------------------------------------------------- SpecResume
\* A session whose producer replaces its ChunkBuffer by a new one when the
\* buffer is done, as when recording goes on after an interruption.
NextResume ==
    \/ AddChunk
    \/ TimerFires
    \/ Finalize
    \/ WriteSucceeds
    \/ WriteFails
    \/ NewChunkBuffer

SpecResume == InitStore /\ [][NextResume]_vars

\* ------------------------------------------------------------- SpecDelete
\* The delete operations on a database that holds a recorded session: its
\* record, chunks 0..n-1 and possibly the reconstruction cached from them.
StoredChunks(n) ==
    {[sessionId |-> BufferSession, sequence |-> i - 1, blob |-> i] : i \in 1..n}

InitDelete ==
    /\ format = "audio/webm;codecs=opus"
    /\ InitBufferFields
    /\ InitCalls
    /\ InitPage
    /\ budget = 0
    /\ sessions = [x \in {BufferSession} |-> [duration |-> 0, mimeType |-> format]]
    /\ nextSessionId = BufferSession + 1
    /\ audioData = <<>>
    /\ transcripts = <<>>
    /\ \E n \in 0..MaxStoreFrags :
        /\ recordingChunks = StoredChunks(n)
        /\ playbackCache \in
             {<<>>} \cup
             {[x \in {BufferSession} |->
                 NewBlob(BlobsOf(SortBySequence(StoredChunks(k))), "audio/webm;codecs=opus")]
              : k \in 1..n}

NextDelete ==
    \/ StoreTranscript
    \/ StoreAudioData
    \/ SessionManagerCall
    \/ DbDeleteSessionCall
    \/ DeleteChunks
    \/ DeleteChunksFails
    \/ ClearCache
    \/ ClearCacheFails
    \/ DeleteSessionRecord
    \/ DeleteSessionRecordFails
    \/ DbDeleteStep
    \/ DbDeleteStepFails

SpecDelete == InitDelete /\ [][NextDelete]_vars

\* -------------------------------------------------------------- SpecPage
\* The recording lifecycle of the page: the user clicks the microphone and the
\* Clear button and calls resume while the platform delivers fragments, ends
\* recognition and settles the awaited operations in any order.
InitEmptyTables ==
    /\ sessions = <<>>
    /\ nextSessionId = 1
    /\ audioData = <<>>
    /\ transcripts = <<>>
    /\ recordingChunks = {}
    /\ playbackCache = <<>>

InitPageSpec ==
    /\ format = "audio/webm;codecs=opus"
    /\ InitBufferFields
    /\ InitCalls
    /\ InitEmptyTables
    /\ InitPage
    /\ budget = 0

NextPage ==
    \/ HandleMicClick
    \/ ClearRecording
    \/ ResumeRecording
    \/ GetUserMediaResolves
    \/ CreateSessionResolves
    \/ StartFails
    \/ TimesliceData
    \/ RequestedData
    \/ RequestedEmpty
    \/ FlushTimeout
    \/ PauseStoreResolves
    \/ PauseDurationResolves
    \/ PauseBackupSettles
    \/ PauseStoreFails
    \/ ClearDurationResolves
    \/ ClearDurationFails
    \/ TracksEnded
    \/ RecognitionEnds

SpecPage == InitPageSpec /\ [][NextPage]_vars

\* --------------------------------------------------------------- SpecWait
\* Recordings that are started and paused, with a driver that delivers a
\* fragment, an empty one or nothing when asked.  A timeout set by setTimeout
\* fires unless it is cleared.
NextWait ==
    \/ HandleMicClick
    \/ GetUserMediaResolves
    \/ CreateSessionResolves
    \/ TimesliceData
    \/ RequestedData
    \/ RequestedEmpty
    \/ FlushTimeout
    \/ PauseStoreResolves
    \/ PauseDurationResolves
    \/ PauseBackupSettles
    \/ TracksEnded
    \/ RecognitionEnds

SpecWait == InitPageSpec /\ [][NextWait]_vars /\ WF_vars(FlushTimeout)

\* ---------------------------------------------------------- SpecDuplicate
\* Recordings that are started and paused by a user who repeats the pause
\* action before the pause has ended.
NextDuplicate ==
    \/ HandleMicClick
    \/ DuplicatePause
    \/ GetUserMediaResolves
    \/ CreateSessionResolves
    \/ TimesliceData
    \/ RequestedData
    \/ RequestedEmpty
    \/ FlushTimeout
    \/ PauseStoreResolves
    \/ PauseDurationResolves
    \/ PauseBackupSettles
    \/ TracksEnded
    \/ RecognitionEnds

SpecDuplicate == InitPageSpec /\ [][NextDuplicate]_vars

\* --------------------------------------------------------- SpecTranscript
\* The lifecycle of the page while the recognizer under its engine fires
\* result events, with a recorder that has no data to deliver: every pause
\* ends by the timeout of flushRecorderAndWait.
NextTranscript ==
    \/ HandleMicClick
    \/ ClearRecording
    \/ GetUserMediaResolves
    \/ CreateSessionResolves
    \/ FlushTimeout
    \/ ClearDurationResolves
    \/ RecognitionEnds
    \/ ResultEvent

SpecTranscript == InitPageSpec /\ [][NextTranscript]_vars

\* -------------------------------------------------------------- SpecClock
\* The lifecycle of the page, no operation failing, while time passes.
NextClock ==
    \/ HandleMicClick
    \/ ResumeRecording
    \/ ClearRecording
    \/ GetUserMediaResolves
    \/ CreateSessionResolves
    \/ RequestedData
    \/ FlushTimeout
    \/ PauseStoreResolves
    \/ PauseDurationResolves
    \/ PauseBackupSettles
    \/ ClearDurationResolves
    \/ TracksEnded
    \/ RecognitionEnds
    \/ Tick

SpecClock == InitPageSpec /\ [][NextClock]_vars

\* ------------------------------------------------------------- SpecEngine
\* A NativeEngine that is started and stopped while its recognizer fires result
\* events and ends.
NextEngine ==
    \/ EngineStartCall
    \/ EngineStopCall
    \/ RecognitionEnds
    \/ ResultEvent

SpecEngine == InitPageSpec /\ [][NextEngine]_vars

\* ------------------------------------------------------------------ claims
\* The transitions of recordingState that RECORDING_FLOW.md lists as valid.
ValidTransitions ==
    {<<"idle", "recording">>, <<"recording", "paused">>, <<"paused", "recording">>,
     <<"recording", "idle">>, <<"paused", "idle">>}

\* The fragments stored for a session.
StoredFragments(sid) == {r.blob : r \in ChunksOf(sid)}

\* C1: after any history of addChunk, timer firings, finalize and clear,
\* flushes that failed and were retried included, the sequence numbers stored
\* for the session are exactly 0..N-1.
C1_SequencesContiguous ==
    LET seqs == {r.sequence : r \in ChunksOf(BufferSession)}
    IN seqs = 0..(Cardinality(seqs) - 1)

\* C2: unless clear() was called, every pushed fragment is in the chunk store
\* once a finalize() called after the last push has returned and no write is
\* pending: a fragment pushed during an earlier flush is not dropped.
C2_NoFragmentLost ==
    (finalized /\ ~cleared /\ pendingWrites = <<>>)
        => \A f \in 1..pushed : f \in StoredFragments(BufferSession)

\* C3: a cached reconstruction never lacks a chunk that is in the chunk store
\* of its session: writing chunks invalidates the cache entry.
C3_CacheHasEveryChunk ==
    \A sid \in DOMAIN playbackCache :
        \A f \in StoredFragments(sid) :
            \E i \in 1..Len(playbackCache[sid].data) : playbackCache[sid].data[i] = f

\* C4: a reconstruct that returns after an earlier one returned, with no chunk
\* write and no delete in between, returns the same blob, reads the chunk store
\* zero times and leaves the cache entry holding that blob.
C4_ReconstructIdempotent ==
    (rdResult.kind = "blob" /\ rdResult.prev # NoBlob)
        => /\ rdResult.blob = rdResult.prev
           /\ rdResult.storeReads = 0
           /\ rdResult.cached

\* C4 witness: a second reconstruct returned with no write or delete since the
\* first one returned.
C4_Witness ==
    /\ rdResult.kind = "blob"
    /\ rdResult.prev # NoBlob
    /\ Len(rdResult.blob.data) > 0

\* C5: once SessionManager.deleteSession has returned for a session that had
\* chunks and a cache entry, the session has no chunks and a reconstruct called
\* afterwards does not return a blob.
C5_DeletedSessionNotFound ==
    /\ \A sid \in deletedWarm : ChunksOf(sid) = {}
    /\ rdResult.afterDelete => rdResult.kind # "blob"

\* C6: when a delete of a session has returned normally, the session record is
\* gone and no chunk, cached reconstruction or transcript segment of that
\* session is left in any table.
C6_DeleteCascades ==
    (dlResult.kind = "ok" /\ dlResult.op \in {"SessionManager.deleteSession", "deleteSession"})
        => /\ ~dlResult.sessionLeft
           /\ ~dlResult.chunksLeft
           /\ ~dlResult.cacheLeft
           /\ ~dlResult.transcriptsLeft

\* C7: under every interleaving of the user's actions with the awaited
\* operations, each change of recordingState is one of idle->recording,
\* recording->paused, paused->recording, recording->idle, paused->idle.
C7_OnlyValidTransitions ==
    [][recordingState' # recordingState
          => <<recordingState, recordingState'>> \in ValidTransitions]_vars

\* C8: whenever recordingState is 'paused', the pause that set it had stored
\* the session's audio and updated its duration.
C8_PausedOnlyAfterPersistence ==
    recordingState = "paused" => (lastPause.stored /\ lastPause.updated)

\* C9: after start, pause, a click on the microphone while paused and a second
\* pause, the audio the second pause stored is built from every fragment
\* delivered since the session was created.
C9_SecondPauseHasAllFragments ==
    (cycle = "paused2" /\ lastPause.stored) => lastPause.complete

\* C10: no result index of a recognition gets more than one final emission,
\* whatever result events the recognizer fires.
C10_OneFinalEmissionPerIndex ==
    \A i \in DOMAIN finalEmitted : finalEmitted[i] <= 1

\* C11: with no store failure, whenever fragments are buffered and no flush is
\* in progress the flush timer is armed, so that the buffered fragments are
\* flushed without any further push.
C11_TimerArmedWhileBuffered ==
    (chunks # <<>> /\ pendingWrites = <<>> /\ failures = 0) => flushTimer = "armed"

\* The chunks 0..n-1 of the session holding the fragments 1..n in order.
ChunksInOrder(n) ==
    {[sessionId |-> BufferSession, sequence |-> f - 1, blob |-> f] : f \in 1..n}

\* C12: while fragments are pushed one after another, each addChunk awaited,
\* a push that makes the count reach 10 cancels the timer and has the buffer
\* flushed before it returns; once 12 fragments were pushed and flushed, two
\* batches of 10 and 2 were written and the store holds chunks 0..11.
C12_CountFlushThenRest ==
    /\ (batches.on /\ pendingWrites = <<>>) => Len(chunks) < FLUSH_COUNT
    /\ (batches.on /\ pendingWrites # <<>>) =>
            /\ flushTimer = "null"
            /\ Len(pendingWrites) = 1
            /\ BlobsOf(pendingWrites[1].records) = chunks
    /\ (batches.on /\ pushed = ScenarioFrags /\ chunks = <<>> /\ pendingWrites = <<>>) =>
            /\ batches.sizes = <<FLUSH_COUNT, ScenarioFrags - FLUSH_COUNT>>
            /\ recordingChunks = ChunksInOrder(ScenarioFrags)

\* C12 witness: 12 fragments were pushed one after another and flushed in two
\* batches.
C12_Witness ==
    /\ batches.on
    /\ pushed = ScenarioFrags
    /\ chunks = <<>>
    /\ pendingWrites = <<>>
    /\ Len(batches.sizes) = 2

\* C13: a step in which a flush is rejected to its caller leaves the buffered
\* fragments, the byte counter and the timer as they are and issues no new
\* write; the rejected caller is the one that called the flush.
C13_FailedFlushKeepsBuffer ==
    [][lastError' # "none" =>
          /\ chunks' = chunks
          /\ totalMemoryBytes' = totalMemoryBytes
          /\ flushTimer' = flushTimer
          /\ pendingWrites # <<>>
          /\ pendingWrites' = Tail(pendingWrites)
          /\ lastError' = Head(pendingWrites).caller]_vars

\* C13 witness: a flush was rejected with fragments in the buffer.
C13_Witness ==
    /\ lastError \in {"addChunk", "finalize", "timer"}
    /\ chunks # <<>>
    /\ totalMemoryBytes > 0

\* C14: a step in which getUserMedia is rejected during start sets
\* recordingState to 'idle', creates no session and no recorder and starts no
\* elapsed-time timer.
C14_FailedAcquisitionAborts ==
    [][(startCall = "getUserMedia" /\ startCall' = "idle" /\ failures' # failures) =>
          /\ recordingState' = "idle"
          /\ sessions' = sessions
          /\ sessionId' = sessionId
          /\ nextSessionId' = nextSessionId
          /\ mediaRecorder' = mediaRecorder
          /\ timers' = timers
          /\ timerInterval' = timerInterval]_vars

\* C14 witness: the first start of the page has failed to acquire the stream;
\* the page is idle with no session, no recorder and no timer.
C14_Witness ==
    /\ failures > 0
    /\ clicks > 0
    /\ startCall = "idle"
    /\ mediaRecorder = "null"
    /\ recordingState = "idle"
    /\ sessions = <<>>
    /\ timers = 0

\* C15: when storing the audio or updating the duration has failed during a
\* pause or a clear, the caller of that operation was given the error.
C15_PersistenceFailureSurfaced ==
    lastFailure.op # "none" => lastFailure.surfaced

\* C16: after a pause whose store step failed, the collected fragments are
\* all still held, and a pause called again does not end without reaching
\* 'paused' with the complete audio stored.
C16_FailedPauseRetryable ==
    /\ cycle \in {"failed", "retrying"} => audioChunks = sessionFragments
    /\ cycle # "retryAborted"
    /\ cycle = "retried" => (lastPause.stored /\ lastPause.complete)

C18_DurationMatchesCounter ==
    lastPause.stored => (lastPause.duration - lastPause.counter) \in -1..1

\* C19: once the recording was resumed after a pause, the elapsed-time
\* counter, when its interval has brought it up to date, is the time spent in
\* 'recording' so far, the time spent in 'paused' left out, within one timer
\* tick, and so is the duration the next pause persists.
C19_PausedTimeNotCounted ==
    /\ (cycle \in {"resumed", "resumedDirect"} /\ recordingState = "recording"
            /\ timers > 0 /\ recordingTime = now - startTime)
           => (recordingTime - recordedTime) \in -1..1
    /\ cycle = "paused2" => (lastPause.duration - recordedTime) \in -1..1

\* C20: a clear that began in 'recording' on a session has stored the audio
\* and the duration and ended in 'idle'; a clear that began in 'paused', its
\* update not failing, has written no audio, updated the duration and ended
\* in 'idle'.
C20_ClearPersistsThenIdle ==
    /\ (lastClear.from = "recording" /\ lastClear.session)
           => (lastClear.stored /\ lastClear.updated /\ lastClear.state = "idle")
    /\ (lastClear.from = "paused" /\ lastClear.session /\ ~lastClear.failed)
           => (~lastClear.stored /\ lastClear.updated /\ lastClear.state = "idle")

\* C21: after start, a pause that stored the audio, a click to resume and a
\* second pause that stored the audio, no store having failed, the audio
\* getSessionAudio retrieves for the session is the blob the second pause
\* stored.
C21_LatestAudioRetrieved ==
    (cycle = "paused2" /\ sessionId # 0) => GetSessionAudio(sessionId) = lastPause.blob

\* C22: when the read of the session's chunks fails, estimateSize,
\* getSessionSize and getChunkCount fail too: none of them returns a number.
C22_ReadFailureSurfaced ==
    (rdResult.op \in {"estimateSize", "getSessionSize", "getChunkCount"} /\ rdResult.readFailed)
        => rdResult.kind = "error"

\* C23: lastResultIndex never decreases while the entries of a result event
\* are processed.
C23_WatermarkMonotone ==
    \A k \in 1..(Len(watermarks) - 1) : watermarks[k] <= watermarks[k + 1]

\* C24: the first result event of a recognition, when it carries a final
\* result at index 0, has that result emitted: the watermark is 0 when a
\* recognition begins, also after an engine restart or a reconnect.
C24_WatermarkStartsAtZero ==
    [][(events' # events /\ results = <<>> /\ results' = <<TRUE>>)
           => finalEmitted'[0] = 1]_vars

\* The entries the last result event had the engine process, in processing
\* order: index, finality and the watermark while the entry was processed.
ProcessedEntries ==
    [k \in 1..(Len(watermarks) - 1) |->
        [resultIndex |-> lastEvent.resultIndex + k - 1,
         isFinal |-> results[lastEvent.resultIndex + k],
         w |-> watermarks[k]]]

\* C25: a result event has every entry from its resultIndex to the end of the
\* result list processed in increasing index order; an entry is emitted if and
\* only if its index is at or above the watermark or it is not final; after a
\* final entry the watermark is its index + 1, emitted or not, and after an
\* interim entry it is unchanged.
C25_EmissionRule ==
    watermarks # <<>> =>
        LET due == SelectSeq(ProcessedEntries,
                             LAMBDA e : e.resultIndex >= e.w \/ ~e.isFinal)
        IN /\ Len(watermarks) - 1 = Len(results) - lastEvent.resultIndex
           /\ Len(lastEvent.emitted) = Len(due)
           /\ \A k \in 1..Len(due) :
                 /\ lastEvent.emitted[k].resultIndex = due[k].resultIndex
                 /\ lastEvent.emitted[k].isFinal = due[k].isFinal
           /\ \A k \in 1..Len(ProcessedEntries) :
                 watermarks[k + 1] = IF ProcessedEntries[k].isFinal
                                     THEN ProcessedEntries[k].resultIndex + 1
                                     ELSE watermarks[k]
           /\ engine.lastResultIndex = watermarks[Len(watermarks)]

\* An event processed a final entry below the watermark, which was skipped
\* and set the watermark, and an interim entry below the watermark, which was
\* emitted.
C25_Witness ==
    /\ watermarks # <<>>
    /\ \E k \in 1..Len(ProcessedEntries) :
          LET e == ProcessedEntries[k]
          IN /\ e.isFinal /\ e.resultIndex < e.w
             /\ watermarks[k + 1] = e.resultIndex + 1
             /\ \A j \in 1..Len(lastEvent.emitted) :
                   lastEvent.emitted[j].resultIndex # e.resultIndex
    /\ \E k \in 1..Len(ProcessedEntries), j \in 1..Len(lastEvent.emitted) :
          LET e == ProcessedEntries[k]
          IN /\ ~e.isFinal /\ e.resultIndex < e.w
             /\ lastEvent.emitted[j].resultIndex = e.resultIndex
             /\ ~lastEvent.emitted[j].isFinal

\* C26: the buffer never holds more than FLUSH_COUNT fragments, whatever the
\* pushes, also during a flush in flight and after a failed flush.
C26_BufferBounded == Len(chunks) <= FLUSH_COUNT

\* The sequence numbers of the records in `visited` ascend strictly.
Ascending(visited) ==
    \A k \in 1..(Len(visited) - 1) : visited[k].sequence < visited[k + 1].sequence

\* C27: of two stored chunks of the session the one whose fragment was pushed
\* earlier has the smaller sequence number; streamChunks visits every chunk of
\* the session exactly once in ascending sequence order, and reconstruct
\* builds its blob from the chunks it read in ascending sequence order.
C27_ArrivalOrder ==
    /\ \A r1, r2 \in ChunksOf(BufferSession) :
          r1.blob < r2.blob => r1.sequence < r2.sequence
    /\ (rdResult.op = "streamChunks" /\ rdResult.kind = "done")
          => /\ Ascending(rdResult.visited)
             /\ {rdResult.visited[k] : k \in 1..Len(rdResult.visited)} = ChunksOf(rdResult.sid)
    /\ (rdResult.op = "reconstruct" /\ rdResult.kind = "blob" /\ rdResult.storeReads > 0)
          => /\ Ascending(rdResult.visited)
             /\ rdResult.blob.data = BlobsOf(rdResult.visited)

\* A pauseRecording call is waiting in flushRecorderAndWait.
Waiting == \E i \in DOMAIN pauseCalls : pauseCalls[i].pc \in {"flush", "timeout"}

\* C28: a pause that waits in flushRecorderAndWait stops waiting, whatever
\* the driver delivers; when the wait of the only pause in progress ends, by a
\* fragment or by the timeout, the pause goes on once: it builds the audio
\* from every fragment collected so far, or sets 'paused' at once when there
\* is no session or no fragment.
C28_FlushWaitTerminates ==
    /\ Waiting ~> ~Waiting
    /\ [][(Len(pauseCalls) = 1 /\ Waiting /\ pauseCalls' # pauseCalls)
            => \/ /\ Len(pauseCalls') = 1
                  /\ pauseCalls'[1].pc = "timeout"
                  /\ pauseCalls[1].pc = "flush"
               \/ /\ Len(pauseCalls') = 1
                  /\ pauseCalls'[1].pc = "store"
                  /\ sessionId # 0 /\ audioChunks' # <<>>
                  /\ pauseCalls'[1].blob = NewBlob(audioChunks', format)
               \/ /\ pauseCalls' = <<>>
                  /\ recordingState' = "paused"
                  /\ sessionId = 0 \/ audioChunks' = <<>>
               \/ /\ Len(pauseCalls') = 2
                  /\ pauseCalls'[1] = pauseCalls[1]]_vars

\* The wait has ended by its timeout, the driver not having emitted the
\* fragment requested, and the pause stores the fragment collected before.
C28_Witness ==
    /\ Len(pauseCalls) = 1
    /\ pauseCalls[1].pc = "store"
    /\ driver.requested
    /\ ~driver.orphan
    /\ mediaRecorder = "paused"
    /\ delivered = 1
    /\ pauseCalls[1].blob = NewBlob(<<1>>, format)

\* C29: every record of a write in flight has a sequence number above those
\* of all chunks stored for the session, also when the write is issued by a
\* ChunkBuffer created for a session that has stored chunks: no write reuses
\* an existing (sessionId, sequence) key.
C29_SequenceContinues ==
    \A i \in 1..Len(pendingWrites) :
        \A k \in 1..Len(pendingWrites[i].records) :
            \A r \in ChunksOf(BufferSession) :
                pendingWrites[i].records[k].sequence > r.sequence

\* C30: after a recording has been started and paused, with nothing else done
\* in between and the audio stored, the page is 'paused' and the tracks of its
\* capture stream are live.
C30_StreamLiveWhilePaused ==
    cycle = "paused1" => (recordingState = "paused" /\ stream = "live")

\* C31: the elapsed-time interval runs only while recordingState is
\* 'recording': in 'paused' and in 'idle' no interval is running.
C31_TimerOnlyWhileRecording == recordingState # "recording" => timers = 0

\* C32: when recording continues after a pause that stored the audio, by a
\* click on the microphone or by resumeRecording, and no pause has begun
\* since, suppressTranscriptionErrors is false.
C32_ErrorsReportedWhileRecording ==
    (cycle \in {"resumed", "resumedDirect"} /\ recordingState = "recording"
     /\ pauseCalls = <<>>)
        => ~suppressTranscriptionErrors

\* C33: when the pause action is repeated while the first pause of a recording
\* is in progress, the audio of the session is stored once, and no pause flow
\* comes to its end once the page is 'paused'.
C33_DuplicatePauseIsNoOp ==
    /\ [](cycle \in {"started", "paused1"}
            => Cardinality({i \in 1..Len(audioData) : audioData[i].sessionId = sessionId}) <= 1)
    /\ [][(recordingState = "paused" /\ sessionId # 0)
            => Len(pauseCalls') >= Len(pauseCalls)]_vars


\* C34: a clear() of the buffer cancels the pending flush timer and empties
\* the buffer and the byte counter without writing: the step leaves the chunk
\* store, the sequence counter and the writes in flight as they were.  No
\* later flush writes the dropped fragments: a flush only writes what is in
\* the buffer when it starts, the buffer only gains fragments pushed after
\* the clear, and the timer stays cancelled until such a push arms it.
C34_ClearDropsWithoutWriting ==
    /\ [][(~cleared /\ cleared')
            => /\ flushTimer' = "null"
               /\ chunks' = <<>>
               /\ totalMemoryBytes' = 0
               /\ recordingChunks' = recordingChunks
               /\ sequence' = sequence
               /\ pendingWrites' = pendingWrites]_vars
    /\ [][Len(pendingWrites') > Len(pendingWrites)
            => BlobsOf(pendingWrites'[Len(pendingWrites')].records) = chunks']_vars
    /\ [][\A k \in 1..Len(chunks') :
            \/ \E j \in 1..Len(chunks) : chunks[j] = chunks'[k]
            \/ chunks'[k] > pushed]_vars
    /\ [][(flushTimer # "armed" /\ flushTimer' = "armed") => pushed' > pushed]_vars

\* Fragments were dropped by a clear: some fragments are stored, fewer than
\* were pushed, none is buffered or in flight and no write failed.
C34_Witness ==
    /\ cleared
    /\ recordingChunks # {}
    /\ Cardinality(recordingChunks) < pushed
    /\ chunks = <<>>
    /\ pendingWrites = <<>>
    /\ flushTimer = "null"
    /\ failures = 0



\* C35: a clearRecording on a session that ran to its end without a failing
\* update leaves sessionId naming the session and currentAudioBlob holding
\* the audio last persisted for it, and has reset finalResults,
\* currentInterim and recordingTime; the cleared view then stays empty for as
\* long as the page is 'idle' and no start is running.
C35_ClearKeepsSessionResetsView ==
    /\ [][(lastClear' # lastClear /\ lastClear'.session /\ ~lastClear'.failed)
            => /\ sessionId' = sessionId
               /\ sessionId' # 0
               /\ lastPause.stored => currentAudioBlob' = lastPause.blob
               /\ finalResults' = <<>>
               /\ currentInterim' = NoInterim
               /\ recordingTime' = 0]_vars
    /\ [][(/\ lastClear.session /\ lastClear.state = "idle"
           /\ recordingState = "idle" /\ recordingState' = "idle"
           /\ startCall = "idle" /\ startCall' = "idle"
           /\ finalResults = <<>> /\ currentInterim = NoInterim)
            => (finalResults' = <<>> /\ currentInterim' = NoInterim)]_vars


\* C36: the blob reconstruct returns for a session is tagged with the
\* mimeType recorded for that session, whatever format that is.
C36_ReconstructKeepsFormat ==
    (rdResult.op = "reconstruct" /\ rdResult.kind = "blob" /\ rdResult.sid \in DOMAIN sessions)
        => rdResult.blob.type = sessions[rdResult.sid].mimeType


\* C37: the recognition end that follows a stop() on a listening engine moves
\* the engine to 'idle' and does not restart the recognizer; a recognition
\* end that no stop() asked for, the engine being 'listening', moves it to
\* 'connecting' and restarts the recognizer; the first result event of a
\* restarted recognizer moves the engine back to 'listening'.
C37_EndAfterStopAndNaturalEnd ==
    /\ [][(RecognitionEnds /\ engine.state = "listening" /\ engine.stopRequested)
            => (engine'.state = "idle" /\ ~engine'.recognizing)]_vars
    /\ [][(RecognitionEnds /\ engine.state = "listening" /\ ~engine.stopRequested)
            => (engine'.state = "connecting" /\ engine'.recognizing)]_vars
    /\ [][(events' = events + 1 /\ engine.state = "connecting")
            => engine'.state = "listening"]_vars


\* C38: no fragment is written to the chunk store more than once: however
\* flushes by the timer, by the count and by finalize overlap, the store
\* holds at most one record of each pushed fragment.
C38_FragmentWrittenOnce ==
    \A f \in 1..pushed :
        Cardinality({r \in recordingChunks : r.blob = f}) <= 1


\* C39: whenever no start, pause or clear is in progress, the recorder is
\* recording if and only if recordingState is 'recording', it is paused when
\* the state is 'paused' and it is not capturing when the state is 'idle'.
C39_RecorderMatchesState ==
    (startCall = "idle" /\ pauseCalls = <<>> /\ clearCall.pc = "idle")
        => /\ (mediaRecorder = "recording") <=> (recordingState = "recording")
           /\ recordingState = "paused" => mediaRecorder = "paused"
           /\ recordingState = "idle" => mediaRecorder \in {"null", "inactive"}



\* C40: a result event that arrives while the page is 'recording' appends
\* each final result the engine emits for it to finalResults once, and stores
\* it as a transcript segment of the session once, however many times
\* recording was started on the engine, no recording having been cleared and
\* no start or pause being in progress.
C40_FinalStoredOnce ==
    [][(/\ events' = events + 1
        /\ recordingState = "recording"
        /\ lastClear = NoClear /\ clearCall.pc = "idle"
        /\ startCall = "idle" /\ pauseCalls = <<>>
        /\ handlers >= 1)
        => LET n == Cardinality({k \in 1..Len(lastEvent'.emitted) :
                                    lastEvent'.emitted[k].isFinal})
           IN /\ Len(finalResults') = Len(finalResults) + n
              /\ sessionId # 0 => Len(transcripts') = Len(transcripts) + n]_vars

====
